---- MODULE Spec2Model ----
(***************************************************************************)
(* Acquisition gateway: device lifecycle supervisor (logging.rs), Modbus  *)
(* and IEC 104 protocol clients (modbus.rs, iec104.rs) and the embedded   *)
(* store (database.rs).                                                    *)
(*                                                                         *)
(* Three specifications share the variables below:                         *)
(*   SpecLog   the log table: insert_log_entry and cleanup_old_entries     *)
(*   SpecRead  ModbusClient::read_specific_tags on one tag list            *)
(*   Spec      the supervisor: start_device, stop_device, the REST         *)
(*             updates and the schedule-group loops                        *)
(***************************************************************************)
EXTENDS Integers, Sequences, FiniteSets, Bags, TLC

None == "None"

\* ------------------------------------------------------------------ bounds
\* AUTOINCREMENT ids handed out by the log table in SpecLog.
MaxRowId == 4
\* Largest max_entries handed to cleanup_old_entries.
MaxCap == 3

\* Longest tag list handed to read_specific_tags in SpecRead.
MaxTags == 2

\* Loop tasks alive at one time (spawned and not aborted).
MaxTasks == 2
\* Successful connects counted by one loop.
MaxConnections == 2
\* Largest retry_count of a device row.
MaxRetry == 2

VARIABLES
    log_entries,    \* table log_entries: a set of rows
    log_seq,        \* sqlite_sequence of log_entries (AUTOINCREMENT)
    op,             \* the last store / client call that returned: name, arguments, result
    modbus,         \* SpecRead: the ModbusClient under test
    devices,        \* table devices: device id -> row
    device_tags,    \* table device_tags: device id -> rows ordered by address
    schedule_groups,\* table schedule_groups: a set of rows
    device_status,  \* table device_status: device id -> row
    device_tasks,   \* LoggingService.device_tasks: device id -> JoinHandles
    device_clients, \* LoggingService.device_clients: device id -> Option<DeviceClient>
    clients_lock,   \* holder of the device_clients mutex across an await (0: free)
    tasks,          \* the spawned schedule_group_loop tasks
    calls,          \* the REST requests in progress
    iec104,         \* SpecIec: the Iec104Client under test
    wire,           \* SpecIec: the peer's side of the client's TCP stream
    modbus_tcp_tag_registers, \* table modbus_tcp_tag_registers: a bag of rows
    device_models,  \* table device_models: a set of rows
    thingsboard,    \* the upstream ThingsBoard tenant: its devices
    plant_config,   \* table plant_config: the singleton row, or None
    connection,     \* Database.connection: the tables as of BEGIN while a transaction is open, or None
    tag_templates   \* table tag_templates: a bag of rows

logVars == <<log_entries, log_seq, op, modbus>>
storeVars == <<devices, device_tags, schedule_groups, device_status>>
supVars == <<device_tasks, device_clients, clients_lock, tasks, calls>>
iecVars == <<iec104, wire>>
csvVars == <<modbus_tcp_tag_registers>>
tbVars == <<device_models, thingsboard, plant_config>>
txVars == <<connection, tag_templates>>
vars == <<logVars, storeVars, supVars, iecVars, csvVars, tbVars, txVars>>

DeviceIds == {"d1"}
\* The requests the REST surface serves at one time.
CallerIds == {1, 2}
TaskIds == 1..MaxTasks

\* A task slot with no live task: never spawned, or aborted and dropped.
NoTask == [pc |-> "dead"]
IdleCall == [op |-> None, pc |-> "idle"]
NoStatus == [status |-> None, error_message |-> None, connection_count |-> 0]

\* The supervisor's state before any request, and an empty store.
NoSupervisor ==
    /\ devices = [d \in DeviceIds |-> <<>>]
    /\ device_tags = [d \in DeviceIds |-> <<>>]
    /\ schedule_groups = {}
    /\ device_status = [d \in DeviceIds |-> NoStatus]
    /\ device_tasks = [d \in DeviceIds |-> {}]
    /\ device_clients = [d \in DeviceIds |-> <<>>]
    /\ clients_lock = 0
    /\ tasks = [t \in TaskIds |-> NoTask]
    /\ calls = [c \in CallerIds |-> IdleCall]
    /\ iec104 = None
    /\ wire = None
    /\ modbus_tcp_tag_registers = EmptyBag
    /\ device_models = {}
    /\ thingsboard = None
    /\ plant_config = None
    /\ tag_templates = EmptyBag
    /\ connection = None

\* ------------------------------------------------------------- timestamps
\* Instants are microseconds after 1970-01-01T00:00:00Z.  The set covers the
\* three renderings of chrono's AutoSi format: no fraction, 3 and 6 digits.
Instants == {0, 500000, 500001, 1000000}

Digit(n) == 48 + n
\* ASCII
CharCode(c) == CASE c = "+" -> 43 [] c = "." -> 46 [] c = ":" -> 58
PLUS == CharCode("+")
DOT == CharCode(".")
COLON == CharCode(":")

\* Text is a sequence of character codes.  Every instant above shares the
\* prefix "1970-01-01T00:00:0", which is left out.
Digits3(n) == <<Digit(n \div 100), Digit((n \div 10) % 10), Digit(n % 10)>>

AutoSiFraction(usec) ==
    IF usec = 0 THEN <<>>
    ELSE IF usec % 1000 = 0 THEN <<DOT>> \o Digits3(usec \div 1000)
    ELSE <<DOT>> \o Digits3(usec \div 1000) \o Digits3(usec % 1000)

UtcOffset == <<PLUS, Digit(0), Digit(0), COLON, Digit(0), Digit(0)>>

\* DateTime<Utc>::to_rfc3339(): seconds, AutoSi fraction, "+00:00".
to_rfc3339(t) ==
    <<Digit(t \div 1000000)>> \o AutoSiFraction(t % 1000000) \o UtcOffset

\* DateTime::parse_from_rfc3339 on a text written by to_rfc3339.
RECURSIVE ParseFraction(_, _, _)
ParseFraction(s, i, scale) ==
    IF i > Len(s) \/ s[i] < Digit(0) \/ s[i] > Digit(9) THEN 0
    ELSE (s[i] - 48) * scale + ParseFraction(s, i + 1, scale \div 10)

parse_from_rfc3339(s) ==
    (s[1] - 48) * 1000000
    + (IF s[2] = DOT THEN ParseFraction(s, 3, 100000) ELSE 0)

\* SQLite's BINARY collation on TEXT: memcmp, a proper prefix sorts first.
RECURSIVE TextLess(_, _)
TextLess(a, b) ==
    IF b = <<>> THEN FALSE
    ELSE IF a = <<>> THEN TRUE
    ELSE IF Head(a) # Head(b) THEN Head(a) < Head(b)
    ELSE TextLess(Tail(a), Tail(b))

TextLeq(a, b) == a = b \/ TextLess(a, b)

\* ---------------------------------------------------------------- log table
LogRow(id, entry) ==
    [id |-> id, device_id |-> entry.device_id, tag_name |-> entry.tag_name,
     value |-> entry.value, quality |-> entry.quality,
     timestamp |-> to_rfc3339(entry.timestamp), unit |-> entry.unit]

\* Database::insert_log_entry: INSERT with the timestamp as RFC 3339 text.
insert_log_entry(table, seq, entry) ==
    [table |-> table \cup {LogRow(seq + 1, entry)}, seq |-> seq + 1,
     ret |-> seq + 1]

\* The other order, ORDER BY timestamp DESC LIMIT n: the rows a cleanup must
\* not pick.
NewestFirstLimit(table, n) ==
    {S \in SUBSET table :
        /\ Cardinality(S) = n
        /\ \A r \in S : \A q \in table \ S : TextLeq(q.timestamp, r.timestamp)}

\* SELECT id FROM log_entries ORDER BY timestamp ASC LIMIT n: the candidate
\* answers; rows with equal timestamps come in an order SQLite does not fix.
OldestFirstLimit(table, n) ==
    {S \in SUBSET table :
        /\ Cardinality(S) = n
        /\ \A r \in S : \A q \in table \ S : TextLeq(r.timestamp, q.timestamp)}

\* Database::cleanup_old_entries(max_entries): the possible outcomes.
cleanup_old_entries(table, max_entries) ==
    LET total_count == Cardinality(table) IN
    IF total_count <= max_entries
    THEN {[table |-> table, ret |-> 0]}
    ELSE LET entries_to_delete == total_count - max_entries IN
         {[table |-> table \ S, ret |-> Cardinality(S)] :
             S \in OldestFirstLimit(table, entries_to_delete)}

SampleEntry(t) ==
    [device_id |-> "d1", tag_name |-> "t1", value |-> 0, quality |-> "Good",
     timestamp |-> t, unit |-> None]

InitLog ==
    /\ log_entries = {}
    /\ log_seq = 0
    /\ op = [name |-> "new"]
    /\ modbus = None
    /\ NoSupervisor

InsertLogEntry ==
    /\ log_seq < MaxRowId
    /\ \E t \in Instants :
        LET r == insert_log_entry(log_entries, log_seq, SampleEntry(t)) IN
        /\ log_entries' = r.table
        /\ log_seq' = r.seq
        /\ op' = [name |-> "insert_log_entry", ret |-> r.ret]
        /\ UNCHANGED <<txVars, tbVars, csvVars, iecVars, modbus, storeVars, supVars>>

CleanupOldEntries ==
    \E max_entries \in 0..MaxCap :
        \E r \in cleanup_old_entries(log_entries, max_entries) :
            /\ log_entries' = r.table
            /\ op' = [name |-> "cleanup_old_entries",
                      max_entries |-> max_entries, ret |-> r.ret]
            /\ UNCHANGED <<txVars, tbVars, csvVars, iecVars, log_seq, modbus, storeVars, supVars>>

NextLog == InsertLogEntry \/ CleanupOldEntries

SpecLog == InitLog /\ [][NextLog]_vars

\* C2: cleanup_old_entries(M) on a table of T rows deletes exactly
\* max(0, T - M) rows, none of them newer than a row it keeps, and returns
\* that number; at most M rows remain; with T <= M it returns 0 and changes
\* nothing.
C2_CleanupDeletesOldest ==
    [][op'.name = "cleanup_old_entries" =>
        LET M == op'.max_entries
            T == Cardinality(log_entries)
            deleted == log_entries \ log_entries'
        IN  /\ log_entries' \subseteq log_entries
            /\ Cardinality(deleted) = (IF T > M THEN T - M ELSE 0)
            /\ op'.ret = Cardinality(deleted)
            /\ Cardinality(log_entries') <= M
            /\ \A r \in deleted : \A q \in log_entries' :
                  parse_from_rfc3339(r.timestamp) <= parse_from_rfc3339(q.timestamp)
            /\ (T <= M => op'.ret = 0 /\ log_entries' = log_entries)]_vars

\* The spec's scenario: cap 3, four rows t1 < t2 < t3 < t4, the first evicted.
C2_Witness ==
    /\ op.name = "cleanup_old_entries"
    /\ op.max_entries = 3
    /\ op.ret = 1
    /\ {r.id : r \in log_entries} = {2, 3, 4}
    /\ \A r, q \in log_entries :
          r.id < q.id =>
              parse_from_rfc3339(r.timestamp) < parse_from_rfc3339(q.timestamp)

\* ------------------------------------------------------------ Modbus client
Ok(v) == [ok |-> TRUE, value |-> v]
Err(e) == [ok |-> FALSE, error |-> e]

\* A DeviceTag row (the columns the supervisor and the client read).
DeviceTag(name, data_type, mult, offset, enabled, group) ==
    [name |-> name, data_type |-> data_type, scaling_multiplier |-> mult,
     scaling_offset |-> offset, unit |-> None, enabled |-> enabled,
     schedule_group_id |-> group]

TagCatalog ==
    {DeviceTag("t1", "uint16", 1, 0, TRUE, None),
     DeviceTag("t2", "int16", 2, 1, TRUE, None),
     DeviceTag("t3", "coil", 1, 5, TRUE, None)}

\* What the device answers to one register read: an error (timeout, exception
\* response, broken connection) or the words read.
Responses == {[err |-> TRUE, words |-> <<>>], [err |-> FALSE, words |-> <<65535>>]}

Injective(f) == \A i, j \in DOMAIN f : f[i] = f[j] => i = j

TagLists ==
    {s \in UNION {[1..n -> TagCatalog] : n \in 0..MaxTags} : Injective(s)}

ModbusClient_new(device_id) == [device_id |-> device_id, tcp_client |-> None]

\* ModbusClient::connect: the context is replaced on success only.
ModbusClient_connect(client, reachable) ==
    IF reachable
    THEN [client |-> [client EXCEPT !.tcp_client = "ctx"], ret |-> Ok("unit")]
    ELSE [client |-> client,
          ret |-> Err("Failed to connect to Modbus TCP device")]

ModbusClient_disconnect(client) == [client EXCEPT !.tcp_client = None]

parse_data_type(data_type_str) ==
    CASE data_type_str = "coil" -> "Coil"
      [] data_type_str = "discrete_input" -> "DiscreteInput"
      [] data_type_str = "holding_register" -> "HoldingRegister"
      [] data_type_str = "input_register" -> "InputRegister"
      [] data_type_str \in {"float32", "F32", "FLOAT"} -> "Float32"
      [] data_type_str = "uint16" -> "UInt16"
      [] data_type_str = "int16" -> "Int16"
      [] data_type_str = "uint32" -> "UInt32"
      [] OTHER -> "HoldingRegister"

\* ---------------------------------------------------------- IEEE-754 single
RECURSIVE Pow2(_)
Pow2(n) == IF n = 0 THEN 1 ELSE 2 * Pow2(n - 1)

\* A finite binary float as (-1)^neg * mant * 2^exp, mant odd or zero.
RECURSIVE Dyadic(_, _, _)
Dyadic(neg, mant, exp) ==
    IF mant = 0 THEN [kind |-> "num", neg |-> neg, mant |-> 0, exp |-> 0]
    ELSE IF mant % 2 = 0 THEN Dyadic(neg, mant \div 2, exp + 1)
    ELSE [kind |-> "num", neg |-> neg, mant |-> mant, exp |-> exp]

\* f32::from_be_bytes on four bytes, most significant first.
f32_from_be_bytes(b) ==
    LET sign == b[1] \div 128
        e == (b[1] % 128) * 2 + b[2] \div 128
        frac == (b[2] % 128) * 65536 + b[3] * 256 + b[4]
    IN  IF e = 255
        THEN (IF frac = 0 THEN [kind |-> "inf", neg |-> sign = 1]
              ELSE [kind |-> "nan"])
        ELSE IF e = 0 THEN Dyadic(sign = 1, frac, 0 - 149)
        ELSE Dyadic(sign = 1, 8388608 + frac, e - 150)

f32_from_le_bytes(b) == f32_from_be_bytes(<<b[4], b[3], b[2], b[1]>>)

\* `as f64`, written as an integer where the float is a small whole number.
AsF64(x) ==
    IF x.kind = "num" /\ x.exp >= 0 /\ x.exp <= 6
    THEN (IF x.neg THEN 0 - 1 ELSE 1) * x.mant * Pow2(x.exp)
    ELSE x

\* Number of bits of a natural number.
RECURSIVE BitLen(_)
BitLen(m) == IF m = 0 THEN 0 ELSE 1 + BitLen(m \div 2)

\* a < b for two finite floats taken by magnitude.
MagLess(a, b) ==
    IF b.mant = 0 THEN FALSE
    ELSE IF a.mant = 0 THEN TRUE
    ELSE LET la == BitLen(a.mant)
             lb == BitLen(b.mant)
             l == IF la > lb THEN la ELSE lb
         IN  IF la + a.exp # lb + b.exp THEN la + a.exp < lb + b.exp
             ELSE a.mant * Pow2(l - la) < b.mant * Pow2(l - lb)

\* a < b on f32 for a, b >= 0: false when either is NaN.
F32Less(a, b) ==
    IF a.kind = "nan" \/ b.kind = "nan" THEN FALSE
    ELSE IF a.kind = "inf" THEN FALSE
    ELSE IF b.kind = "inf" THEN TRUE
    ELSE MagLess(a, b)

\* t * 2^u rounded to a 24-bit significand, ties to even.
Round24(t, u) ==
    LET k == IF BitLen(t) > 24 THEN BitLen(t) - 24 ELSE 0
        q == t \div Pow2(k)
        r == t % Pow2(k)
        up == r * 2 > Pow2(k) \/ (r * 2 = Pow2(k) /\ q % 2 = 1)
    IN  Dyadic(FALSE, q + (IF up THEN 1 ELSE 0), u + k)

Abs(n) == IF n < 0 THEN 0 - n ELSE n

\* (val - 50.0).abs() in f32 arithmetic, round to nearest even.
F32Distance50(val) ==
    IF val.kind = "nan" THEN val
    ELSE IF val.kind = "inf" THEN [kind |-> "inf", neg |-> FALSE]
    ELSE IF val.mant = 0 THEN Dyadic(FALSE, 50, 0)
    ELSE IF BitLen(val.mant) + val.exp >= 32
    THEN \* 50 is below half an ulp of val
         Dyadic(FALSE, val.mant, val.exp)
    ELSE IF val.exp >= 0
    THEN LET x == val.mant * Pow2(val.exp) IN
         Round24(IF val.neg THEN x + 50 ELSE Abs(x - 50), 0)
    ELSE IF val.exp >= 0 - 24
    THEN LET f == 50 * Pow2(0 - val.exp) IN
         Round24(IF val.neg THEN val.mant + f ELSE Abs(val.mant - f), val.exp)
    ELSE \* |val| < 0.5: the result lies in [49.5, 50.5], spaced 2^-18
         LET s == 0 - 18 - val.exp
             q == IF s >= 24 THEN 0 ELSE val.mant \div Pow2(s)
             r == val.mant - (IF s >= 24 THEN 0 ELSE q * Pow2(s))
             up == s <= 24 /\ r > Pow2(s - 1)
             n == q + (IF up THEN 1 ELSE 0)
         IN  Dyadic(FALSE, IF val.neg THEN 13107200 + n ELSE 13107200 - n,
                    0 - 18)

\* val.is_finite() && val > 0.0 && val < 1000.0
InFrequencyRange(val) ==
    /\ val.kind = "num"
    /\ ~val.neg /\ val.mant > 0
    /\ MagLess(val, Dyadic(FALSE, 1000, 0))

\* u32::to_be_bytes and u32::to_le_bytes of (hi << 16) | lo.
to_be_bytes(hi, lo) == <<hi \div 256, hi % 256, lo \div 256, lo % 256>>
to_le_bytes(hi, lo) == <<lo % 256, lo \div 256, hi % 256, hi \div 256>>

\* The four decodings in the order of the candidates vector.
Float32Candidates(reg0, reg1) ==
    <<f32_from_be_bytes(to_be_bytes(reg0, reg1)),
      f32_from_be_bytes(to_be_bytes(reg1, reg0)),
      f32_from_le_bytes(to_le_bytes(reg0, reg1)),
      f32_from_le_bytes(to_le_bytes(reg1, reg0))>>

\* The `for (val, name) in candidates` loop: best starts as ABCD.
RECURSIVE PickFrequency(_, _, _, _)
PickFrequency(candidates, best_value, best_distance, i) ==
    IF i > Len(candidates) THEN best_value
    ELSE LET val == candidates[i]
             distance == F32Distance50(val)
         IN  IF InFrequencyRange(val) /\ F32Less(distance, best_distance)
             THEN PickFrequency(candidates, val, distance, i + 1)
             ELSE PickFrequency(candidates, best_value, best_distance, i + 1)

FREQUENCY_ADDRESS == 19050

\* The Float32 arm of read_tag: resp holds the tag.size registers asked for.
ReadFloat32(tag, resp) ==
    IF Len(resp.words) < 2
    THEN Err("Expected at least 2 registers for F32")
    ELSE LET candidates == Float32Candidates(resp.words[1], resp.words[2])
             value_abcd == candidates[1]
         IN  Ok(IF tag.address = FREQUENCY_ADDRESS
                THEN PickFrequency(candidates, value_abcd,
                                   F32Distance50(value_abcd), 1)
                ELSE value_abcd)

\* `as i16` of a u16 register.
AsI16(w) == IF w >= 32768 THEN w - 65536 ELSE w

\* ModbusClient::read_tag for the integer data types; `resp` is the device's
\* answer to the request the data type selects. ((hi as u32) << 16 | lo) as
\* i32 is written as its value, (hi as i16) * 65536 + lo.
read_tag(client, tag_config, resp) ==
    IF client.tcp_client = None THEN Err("No client connected")
    ELSE IF resp.err THEN Err("transport")
    ELSE CASE tag_config.data_type \in {"Coil", "DiscreteInput"} ->
                Ok(IF resp.words[1] % 2 = 1 THEN 1 ELSE 0)
           [] tag_config.data_type \in {"HoldingRegister", "UInt16", "InputRegister"} ->
                Ok(resp.words[1])
           [] tag_config.data_type = "Int16" -> Ok(AsI16(resp.words[1]))
           [] tag_config.data_type = "UInt32" ->
                Ok(resp.words[2] * 65536 + resp.words[1])
           [] tag_config.data_type = "Int32" ->
                Ok(AsI16(resp.words[2]) * 65536 + resp.words[1])
           [] tag_config.data_type = "Float32" -> ReadFloat32(tag_config, resp)

apply_scaling(value, tag_config) ==
    IF tag_config.scaling.some
    THEN value * tag_config.scaling.multiplier + tag_config.scaling.offset
    ELSE value

TagConfigOf(device_tag) ==
    [name |-> device_tag.name,
     data_type |-> parse_data_type(device_tag.data_type),
     scaling |-> [some |-> TRUE,
                  multiplier |-> device_tag.scaling_multiplier,
                  offset |-> device_tag.scaling_offset,
                  unit |-> device_tag.unit]]

LogEntry(device_id, tag_name, value, quality, timestamp, unit) ==
    [device_id |-> device_id, tag_name |-> tag_name, value |-> value,
     quality |-> quality, timestamp |-> timestamp, unit |-> unit]

\* An Err arm that pushes nothing: the failed tag is skipped.
FailedReadSkipped(client, acc, device_tag, resp, db_ok, timestamp) == acc

\* The Err arm of the match: a Bad entry with value 0.0, not inserted.
FailedRead(client, acc, device_tag, resp, db_ok, timestamp) ==
    [acc EXCEPT !.entries = Append(@,
        LogEntry(client.device_id, device_tag.name, 0, "Bad", timestamp,
                 device_tag.unit))]

\* One turn of the `for device_tag in device_tags` loop: acc holds the
\* log_entries vector and the store.
ReadOneTag(client, acc, device_tag, resp, db_ok, timestamp) ==
    LET tag_config == TagConfigOf(device_tag)
        r == read_tag(client, tag_config, resp)
    IN  IF r.ok
        THEN LET entry == LogEntry(client.device_id, device_tag.name,
                                   apply_scaling(r.value, tag_config), "Good",
                                   timestamp, device_tag.unit)
                 ins == insert_log_entry(acc.table, acc.seq, entry)
             IN  [entries |-> Append(acc.entries, entry),
                  table |-> IF db_ok THEN ins.table ELSE acc.table,
                  seq |-> IF db_ok THEN ins.seq ELSE acc.seq]
        ELSE FailedRead(client, acc, device_tag, resp, db_ok, timestamp)

RECURSIVE ReadTagsFrom(_, _, _, _, _, _, _)
ReadTagsFrom(client, acc, tags_in, resps, db_ok, timestamp, i) ==
    IF i > Len(tags_in) THEN acc
    ELSE ReadTagsFrom(client,
                      ReadOneTag(client, acc, tags_in[i], resps[i], db_ok,
                                 timestamp),
                      tags_in, resps, db_ok, timestamp, i + 1)

\* ModbusClient::read_specific_tags: the Result and the store it leaves.
read_specific_tags(client, table, seq, tags_in, resps, db_ok, timestamp) ==
    LET acc == ReadTagsFrom(client, [entries |-> <<>>, table |-> table, seq |-> seq],
                            tags_in, resps, db_ok, timestamp, 1)
    IN  [ret |-> Ok(acc.entries), table |-> acc.table, seq |-> acc.seq]

ReadInstants == {500000}

InitRead ==
    /\ log_entries = {}
    /\ log_seq = 0
    /\ op = [name |-> "new"]
    /\ modbus = ModbusClient_new("d1")
    /\ NoSupervisor

ModbusConnect ==
    \E reachable \in BOOLEAN :
        LET r == ModbusClient_connect(modbus, reachable) IN
        /\ modbus' = r.client
        /\ op' = [name |-> "connect", ret |-> r.ret]
        /\ UNCHANGED <<txVars, tbVars, csvVars, iecVars, log_entries, log_seq, storeVars, supVars>>

ModbusDisconnect ==
    /\ modbus' = ModbusClient_disconnect(modbus)
    /\ op' = [name |-> "disconnect"]
    /\ UNCHANGED <<txVars, tbVars, csvVars, iecVars, log_entries, log_seq, storeVars, supVars>>

ModbusReadSpecificTags ==
    \E tags_in \in TagLists, db_ok \in BOOLEAN, now \in ReadInstants :
        \E resps \in [1..Len(tags_in) -> Responses] :
            LET r == read_specific_tags(modbus, log_entries, log_seq,
                                        tags_in, resps, db_ok, now) IN
            /\ log_seq + Len(tags_in) <= MaxRowId
            /\ log_entries' = r.table
            /\ log_seq' = r.seq
            /\ op' = [name |-> "read_specific_tags", device_tags |-> tags_in,
                      resps |-> resps, db_ok |-> db_ok, ret |-> r.ret]
            /\ UNCHANGED <<txVars, tbVars, csvVars, iecVars, modbus, storeVars, supVars>>

NextRead == ModbusConnect \/ ModbusDisconnect \/ ModbusReadSpecificTags

SpecRead == InitRead /\ [][NextRead]_vars

\* The value the spec gives a tag whose read returned the word w.
C1_Scaled(device_tag, w) ==
    LET raw == CASE device_tag.data_type = "int16" ->
                        (IF w > 32767 THEN w - 65536 ELSE w)
                 [] device_tag.data_type = "coil" -> w % 2
                 [] OTHER -> w
    IN  raw * device_tag.scaling_multiplier + device_tag.scaling_offset

\* C1: read_specific_tags returns Ok with one LogEntry per input tag, in the
\* order of the tags: Good with the scaled value where the tag's read
\* succeeded, Bad with value 0 where it failed.
C1_OneEntryPerTag ==
    op.name = "read_specific_tags" =>
        /\ op.ret.ok
        /\ Len(op.ret.value) = Len(op.device_tags)
        /\ \A i \in 1..Len(op.device_tags) :
            LET e == op.ret.value[i]
                succeeded == modbus.tcp_client # None /\ ~op.resps[i].err
            IN  /\ e.tag_name = op.device_tags[i].name
                /\ succeeded =>
                      /\ e.quality = "Good"
                      /\ e.value = C1_Scaled(op.device_tags[i], op.resps[i].words[1])
                /\ ~succeeded => e.quality = "Bad" /\ e.value = 0

\* A failed first tag followed by a successful second one.
C1_Witness ==
    /\ op.name = "read_specific_tags"
    /\ Len(op.device_tags) = 2
    /\ op.resps[1].err
    /\ op.ret.value[1].quality = "Bad"
    /\ op.ret.value[2].quality = "Good"
    /\ op.ret.value[2].value # 0

\* ------------------------------------------------------------ IEC 104 client
Iec104Client_new(device_id) == [device_id |-> device_id, stream |-> None]

\* Iec104Client::connect: TCP connect, STARTDT_ACT, STARTDT_CON.
Iec104Client_connect(client, reachable) ==
    IF reachable
    THEN [client |-> [client EXCEPT !.stream = "tcp"], ret |-> Ok("unit")]
    ELSE [client |-> client, ret |-> Err("Failed to connect to IEC 104 device")]

\* What one interrogation meets: the request cannot be written, the peer
\* stays silent until the receive timeout, or the peer answers with data.
InterrogationOutcomes == {"send_failed", "silent", "answered"}

\* Iec104Client::read_specific_tags, which the polling loop calls: an
\* interrogation as in read_tags; only a failed send is an Err.
Iec104Client_read_specific_tags(client, outcome, timestamp) ==
    IF client.stream = None THEN Err("Not connected")
    ELSE IF outcome = "send_failed" THEN Err("transport")
    ELSE IF outcome = "answered"
    THEN Ok(<<LogEntry(client.device_id, "float_1", 1, "Good", timestamp, None)>>)
    ELSE Ok(<<>>)

\* ------------------------------------------------------------- supervisor
Status(status, error_message, connection_count) ==
    [status |-> status, error_message |-> error_message,
     connection_count |-> connection_count]

\* The tags of the seeded device: t1 in high_freq, t2 with no group.
DeviceTagRows(e1, e2) ==
    <<DeviceTag("t1", "uint16", 1, 0, e1, "high_freq"),
      DeviceTag("t2", "int16", 2, 1, e2, None)>>

ScheduleGroupRow(id, enabled) == [id |-> id, enabled |-> enabled]

GroupIds == {"high_freq", "medium_freq"}

InitSupervisor(protocols, retries, second_tag) ==
    /\ log_entries = {}
    /\ log_seq = 0
    /\ op = [name |-> "new"]
    /\ modbus = None
    /\ \E p \in protocols, n \in retries :
          devices = [d \in DeviceIds |->
                        <<[enabled |-> TRUE, retry_count |-> n, protocol |-> p]>>]
    /\ \E e2 \in second_tag :
          device_tags = [d \in DeviceIds |-> DeviceTagRows(TRUE, e2)]
    /\ schedule_groups = {ScheduleGroupRow(g, TRUE) : g \in GroupIds}
    /\ device_status = [d \in DeviceIds |-> NoStatus]
    /\ device_tasks = [d \in DeviceIds |-> {}]
    /\ device_clients = [d \in DeviceIds |-> <<>>]
    /\ clients_lock = 0
    /\ tasks = [t \in TaskIds |-> NoTask]
    /\ calls = [c \in CallerIds |-> IdleCall]
    /\ iec104 = None
    /\ wire = None
    /\ modbus_tcp_tag_registers = EmptyBag
    /\ device_models = {}
    /\ thingsboard = None
    /\ plant_config = None
    /\ tag_templates = EmptyBag
    /\ connection = None

SelectTags(tags_in, Keep(_)) == SelectSeq(tags_in, Keep)

\* tag.schedule_group_id.unwrap_or("medium_freq")
TagGroupId(tag) ==
    IF tag.schedule_group_id = None THEN "medium_freq" ELSE tag.schedule_group_id

\* A grouping without the enabled check.
TagAlwaysEnabled(tag) == TRUE

TagEnabled(tag) == tag.enabled

\* start_device's grouping: the enabled tags under their enabled, existing
\* schedule group; one (ScheduleGroup, tags) pair per group that got a tag.
schedule_group_tags(tags_in, groups) ==
    {[schedule_group |-> sg,
      tags |-> SelectTags(tags_in,
                  LAMBDA tag : TagEnabled(tag) /\ TagGroupId(tag) = sg.id)] :
        sg \in {g \in groups :
                  /\ g.enabled
                  /\ \E i \in 1..Len(tags_in) :
                        TagEnabled(tags_in[i]) /\ TagGroupId(tags_in[i]) = g.id}}

FreeTasks == {t \in TaskIds : tasks[t] = NoTask}

Lowest(S, k) == {t \in S : Cardinality({u \in S : u < t}) < k}

NewTask(d, device_config, entry) ==
    [pc |-> "take", device_id |-> d, group |-> entry.schedule_group.id,
     tags |-> entry.tags, device_config |-> device_config,
     connection_count |-> 0, retry_count |-> 0, client |-> <<>>,
     result |-> <<>>, error |-> None, failed_ticks |-> 0,
     cancelled |-> FALSE]

SetCall(c, r) == calls' = [calls EXCEPT ![c] = r]

Returned(c, ret) ==
    [op |-> calls[c].op, pc |-> "returned", device_id |-> calls[c].device_id,
     ret |-> ret]

\* task.abort() on every handle: the task is dropped at its await point,
\* with the client it holds.
AbortAll(handles) ==
    [t \in TaskIds |-> IF t \in handles THEN NoTask ELSE tasks[t]]

\* start_device up to the stop_device call: get_device and the enabled check.
StartDevice(c, d) ==
    /\ calls[c].pc = "idle"
    /\ IF devices[d] = <<>>
       THEN SetCall(c, [op |-> "start_device", pc |-> "returned",
                        device_id |-> d, ret |-> "Device not found"])
       ELSE IF ~devices[d][1].enabled
       THEN SetCall(c, [op |-> "start_device", pc |-> "returned",
                        device_id |-> d, ret |-> "Ok", enabled |-> FALSE,
                        spawned |-> {}])
       ELSE SetCall(c, [op |-> "start_device", pc |-> "stop_tasks",
                        device_id |-> d, device_config |-> devices[d][1]])
    /\ UNCHANGED <<txVars, tbVars, csvVars, iecVars, logVars, storeVars, device_tasks, device_clients,
                   clients_lock, tasks>>

\* stop_device: device_tasks.write().remove(device_id), abort every task.
RemoveAndAbort(c, d) ==
    /\ device_tasks' = [device_tasks EXCEPT ![d] = {}]
    /\ tasks' = AbortAll(device_tasks[d])
    /\ UNCHANGED <<txVars, tbVars, csvVars, iecVars, logVars, storeVars, device_clients, clients_lock>>

StopDevice(c, d) ==
    /\ calls[c].pc = "idle"
    /\ RemoveAndAbort(c, d)
    /\ SetCall(c, [op |-> "stop_device", pc |-> "stop_client", device_id |-> d])

StartDevice_StopTasks(c) ==
    /\ calls[c].pc = "stop_tasks"
    /\ RemoveAndAbort(c, calls[c].device_id)
    /\ SetCall(c, [calls[c] EXCEPT !.pc = "stop_client"])

\* A lookup that leaves the client in the cache (a borrow instead of a move).
PeekClient(clients, d) == clients

\* HashMap::remove on the client cache.
RemoveClient(clients, d) == [clients EXCEPT ![d] = <<>>]

\* stop_device: lock the cache, remove the device's client and disconnect it;
\* the guard is held until stop_device returns.
StopDevice_Client(c) ==
    /\ calls[c].pc = "stop_client"
    /\ clients_lock = 0
    /\ clients_lock' = c
    /\ device_clients' = RemoveClient(device_clients, calls[c].device_id)
    /\ SetCall(c, [calls[c] EXCEPT !.pc = "stop_status"])
    /\ UNCHANGED <<txVars, tbVars, csvVars, iecVars, logVars, storeVars, device_tasks, tasks>>

\* stop_device: the Stopped status row; back in start_device or returned.
StopDevice_Status(c) ==
    /\ calls[c].pc = "stop_status"
    /\ device_status' = [device_status EXCEPT
                            ![calls[c].device_id] = Status("Stopped", None, 0)]
    /\ clients_lock' = 0
    /\ IF calls[c].op = "stop_device"
       THEN SetCall(c, Returned(c, "Ok"))
       ELSE SetCall(c, [calls[c] EXCEPT !.pc = "get_tags"])
    /\ UNCHANGED <<txVars, tbVars, csvVars, iecVars, logVars, devices, device_tags, schedule_groups,
                   device_tasks, device_clients, tasks>>

\* start_device: get_device_tags.
StartDevice_GetTags(c) ==
    /\ calls[c].pc = "get_tags"
    /\ SetCall(c, [op |-> "start_device", pc |-> "get_groups",
                   device_id |-> calls[c].device_id,
                   device_config |-> calls[c].device_config,
                   tags |-> device_tags[calls[c].device_id]])
    /\ UNCHANGED <<txVars, tbVars, csvVars, iecVars, logVars, storeVars, device_tasks, device_clients,
                   clients_lock, tasks>>

\* start_device: get_schedule_groups, the grouping, and one spawned task per
\* group; with nothing to poll it returns before any status is written.
StartDevice_Spawn(c) ==
    /\ calls[c].pc = "get_groups"
    /\ LET d == calls[c].device_id
           sgt == schedule_group_tags(calls[c].tags, schedule_groups)
           ids == Lowest(FreeTasks, Cardinality(sgt))
       IN  IF sgt = {}
           THEN /\ SetCall(c, [op |-> "start_device", pc |-> "returned",
                               device_id |-> d, ret |-> "Ok", enabled |-> TRUE,
                               spawned |-> {}])
                /\ UNCHANGED tasks
           ELSE /\ Cardinality(FreeTasks) >= Cardinality(sgt)
                /\ LET entry == CHOOSE f \in [ids -> sgt] :
                                    \A i, j \in ids : f[i] = f[j] => i = j
                   IN  tasks' = [t \in TaskIds |->
                                    IF t \in ids
                                    THEN NewTask(d, calls[c].device_config, entry[t])
                                    ELSE tasks[t]]
                /\ SetCall(c, [op |-> "start_device", pc |-> "insert_tasks",
                               device_id |-> d, groups |-> {e.schedule_group.id : e \in sgt},
                               tags |-> calls[c].tags, spawned |-> ids])
    /\ UNCHANGED <<txVars, tbVars, csvVars, iecVars, logVars, storeVars, device_tasks, device_clients, clients_lock>>

\* start_device: device_tasks.write().insert(device_id, tasks).
StartDevice_InsertTasks(c) ==
    /\ calls[c].pc = "insert_tasks"
    /\ device_tasks' = [device_tasks EXCEPT ![calls[c].device_id] = calls[c].spawned]
    /\ SetCall(c, [calls[c] EXCEPT !.pc = "status_starting"])
    /\ UNCHANGED <<txVars, tbVars, csvVars, iecVars, logVars, storeVars, device_clients, clients_lock, tasks>>

\* start_device: the Starting status row.
StartDevice_Status(c) ==
    /\ calls[c].pc = "status_starting"
    /\ device_status' = [device_status EXCEPT
                            ![calls[c].device_id] = Status("Starting", None, 0)]
    /\ SetCall(c, [op |-> "start_device", pc |-> "returned",
                   device_id |-> calls[c].device_id, ret |-> "Ok",
                   enabled |-> TRUE, spawned |-> calls[c].spawned])
    /\ UNCHANGED <<txVars, tbVars, csvVars, iecVars, logVars, devices, device_tags, schedule_groups,
                   device_tasks, device_clients, clients_lock, tasks>>

\* The handler's response is sent.
Return(c) ==
    /\ calls[c].pc = "returned"
    /\ SetCall(c, IdleCall)
    /\ UNCHANGED <<txVars, tbVars, csvVars, iecVars, logVars, storeVars, device_tasks, device_clients,
                   clients_lock, tasks>>

\* is_device_running
is_device_running(d) == device_tasks[d] # {}

\* update_device_with_tags: get_device and update_device; the tags follow.
\* The request keeps retry_count and protocol_config and sets the flags.
UpdateDevice(c, d) ==
    /\ calls[c].pc = "idle"
    /\ devices[d] # <<>>
    /\ \E enabled \in BOOLEAN, e1 \in BOOLEAN, e2 \in BOOLEAN :
        /\ devices' = [devices EXCEPT ![d] = <<[@[1] EXCEPT !.enabled = enabled]>>]
        /\ SetCall(c, [op |-> "update_device_with_tags", pc |-> "delete_tags",
                       device_id |-> d, request_tags |-> DeviceTagRows(e1, e2)])
    /\ UNCHANGED <<txVars, tbVars, csvVars, iecVars, logVars, device_tags, schedule_groups, device_status,
                   device_tasks, device_clients, clients_lock, tasks>>

\* update_device_with_tags: delete_device_tags.
UpdateDevice_DeleteTags(c) ==
    /\ calls[c].pc = "delete_tags"
    /\ device_tags' = [device_tags EXCEPT ![calls[c].device_id] = <<>>]
    /\ SetCall(c, [calls[c] EXCEPT !.pc = "create_tags"])
    /\ UNCHANGED <<txVars, tbVars, csvVars, iecVars, logVars, devices, schedule_groups, device_status,
                   device_tasks, device_clients, clients_lock, tasks>>

\* update_device_with_tags: create_device_tags.
UpdateDevice_CreateTags(c) ==
    /\ calls[c].pc = "create_tags"
    /\ device_tags' = [device_tags EXCEPT
                          ![calls[c].device_id] = calls[c].request_tags]
    /\ SetCall(c, Returned(c, "Ok"))
    /\ UNCHANGED <<txVars, tbVars, csvVars, iecVars, logVars, devices, schedule_groups, device_status,
                   device_tasks, device_clients, clients_lock, tasks>>

\* update_schedule_group: one UPDATE of the group's row.
UpdateScheduleGroup(c) ==
    /\ calls[c].pc = "idle"
    /\ \E g \in GroupIds, enabled \in BOOLEAN :
        /\ schedule_groups' =
              {IF sg.id = g THEN ScheduleGroupRow(g, enabled) ELSE sg :
                  sg \in schedule_groups}
        /\ schedule_groups' # schedule_groups
        /\ SetCall(c, [op |-> "update_schedule_group", pc |-> "returned",
                       device_id |-> None, ret |-> "Ok"])
    /\ UNCHANGED <<txVars, tbVars, csvVars, iecVars, logVars, devices, device_tags, device_status,
                   device_tasks, device_clients, clients_lock, tasks>>

\* --------------------------------------------------- schedule_group_loop
ClientIdsInUse ==
    {device_clients[d][1].id : d \in {x \in DeviceIds : device_clients[x] # <<>>}}
    \cup {tasks[t].client[1].id :
            t \in {u \in TaskIds : tasks[u] # NoTask /\ tasks[u].client # <<>>}}

\* The identity of a newly constructed client: the first one not in use.
FreshClientId ==
    CHOOSE i \in 1..(MaxTasks + 2) :
        i \notin ClientIdsInUse /\ \A j \in 1..(i - 1) : j \in ClientIdsInUse

NewDeviceClient(d, device_config) ==
    IF device_config.protocol = "iec104"
    THEN [id |-> FreshClientId, kind |-> "Iec104", inner |-> Iec104Client_new(d)]
    ELSE [id |-> FreshClientId, kind |-> "Modbus", inner |-> ModbusClient_new(d)]

DeviceClient_connect(client, reachable) ==
    LET r == IF client.kind = "Modbus"
             THEN ModbusClient_connect(client.inner, reachable)
             ELSE Iec104Client_connect(client.inner, reachable)
    IN  [client |-> [client EXCEPT !.inner = r.client], ret |-> r.ret]

Min(a, b) == IF a < b THEN a ELSE b

Qualities(entries) == [i \in 1..Len(entries) |-> entries[i].quality]

\* One read of the polling loop on the task's client: the Result, and whether
\* the device answered at least one read.
ReadOutcomes(task) ==
    LET client == task.client[1] IN
    IF client.kind = "Modbus"
    THEN {[ret |-> read_specific_tags(client.inner, {}, 0, task.tags, resps,
                                      TRUE, 0).ret,
           answered |-> client.inner.tcp_client # None
                        /\ \E i \in 1..Len(task.tags) : ~resps[i].err] :
             resps \in [1..Len(task.tags) -> Responses]}
    ELSE {[ret |-> Iec104Client_read_specific_tags(client.inner, outcome, 0),
           answered |-> client.inner.stream # None /\ outcome = "answered"] :
             outcome \in InterrogationOutcomes}

\* The cache guard of polling loop t: loops are told from requests by the sign.
LoopGuard(t) == 0 - t

\* A guard that lives on after the client was moved out of the cache.
KeepGuard(guard) == guard

\* drop(clients): the cache is unlocked before connect() is awaited.
DropGuard(guard) == 0

\* Top of the loop: lock the cache, create the client if the cache has none,
\* move it out, unlock.
TakeClient(t) ==
    /\ tasks[t].pc = "take"
    /\ clients_lock = 0
    /\ clients_lock' = DropGuard(LoopGuard(t))
    /\ LET d == tasks[t].device_id
           client == IF device_clients[d] = <<>>
                     THEN NewDeviceClient(d, tasks[t].device_config)
                     ELSE device_clients[d][1]
       IN  /\ device_clients' = RemoveClient(device_clients, d)
           /\ tasks' = [tasks EXCEPT ![t].pc = "connect", ![t].client = <<client>>]
    /\ UNCHANGED <<txVars, tbVars, csvVars, iecVars, logVars, storeVars, device_tasks, calls>>

\* connect() returned.
Connect(t, reachable) ==
    /\ tasks[t].pc = "connect"
    /\ LET r == DeviceClient_connect(tasks[t].client[1], reachable)
           n == tasks[t].connection_count + 1
       IN  IF r.ret.ok
           THEN /\ n <= MaxConnections
                /\ tasks' = [tasks EXCEPT
                       ![t].client = <<r.client>>,
                       ![t].connection_count = n,
                       ![t].retry_count = 0,
                       ![t].failed_ticks = 0,
                       ![t].pc = IF n = 1 THEN "status_connected" ELSE "poll"]
           ELSE tasks' = [tasks EXCEPT
                       ![t].client = <<r.client>>,
                       ![t].error = r.ret.error,
                       ![t].pc = "status_error"]
    /\ UNCHANGED <<txVars, tbVars, csvVars, iecVars, logVars, storeVars, device_tasks, device_clients,
                   clients_lock, calls>>

\* The Connected status row, written after the first successful connect.
WriteConnected(t) ==
    /\ tasks[t].pc = "status_connected"
    /\ device_status' = [device_status EXCEPT ![tasks[t].device_id] =
                            Status("Connected", None, tasks[t].connection_count)]
    /\ tasks' = [tasks EXCEPT ![t].pc = "poll"]
    /\ UNCHANGED <<txVars, tbVars, csvVars, iecVars, logVars, devices, device_tags, schedule_groups,
                   device_tasks, device_clients, clients_lock, calls>>

\* An Error row that drops the connect error.
ErrorStatusWithoutMessage(task) == Status("Error", None, task.connection_count)

\* The status of a failed connect: error_message: Some(e.to_string()).
ErrorStatus(task) == Status("Error", task.error, task.connection_count)

\* The Error status row of a failed connect.
WriteError(t) ==
    /\ tasks[t].pc = "status_error"
    /\ device_status' = [device_status EXCEPT ![tasks[t].device_id] =
                            ErrorStatus(tasks[t])]
    /\ tasks' = [tasks EXCEPT ![t].pc = "put_back", ![t].error = None]
    /\ UNCHANGED <<txVars, tbVars, csvVars, iecVars, logVars, devices, device_tags, schedule_groups,
                   device_tasks, device_clients, clients_lock, calls>>

\* device_clients.lock().insert(device_id, client)
PutBack(t) ==
    /\ tasks[t].pc = "put_back"
    /\ clients_lock = 0
    /\ device_clients' = [device_clients EXCEPT
                             ![tasks[t].device_id] = tasks[t].client]
    /\ tasks' = [tasks EXCEPT ![t].pc = "backoff", ![t].client = <<>>]
    /\ UNCHANGED <<txVars, tbVars, csvVars, iecVars, logVars, storeVars, device_tasks, clients_lock, calls>>

\* sleep(5000 ms) is over.
Backoff(t) ==
    /\ tasks[t].pc = "backoff"
    /\ tasks' = [tasks EXCEPT ![t].pc = "take"]
    /\ UNCHANGED <<txVars, tbVars, csvVars, iecVars, logVars, storeVars, device_tasks, device_clients,
                   clients_lock, calls>>

\* schedule_group_polling_loop after read_specific_tags returned r.
PollResult(t, r) ==
    LET silent == IF r.answered THEN 0
                  ELSE Min(tasks[t].device_config.retry_count,
                           tasks[t].failed_ticks + 1)
    IN  IF r.ret.ok
        THEN tasks' = [tasks EXCEPT
                   ![t].retry_count = 0,
                   ![t].result = <<Qualities(r.ret.value)>>,
                   ![t].failed_ticks = silent,
                   ![t].pc = "status_reading"]
        ELSE IF tasks[t].retry_count + 1 >= tasks[t].device_config.retry_count
        THEN tasks' = [tasks EXCEPT
                   ![t].retry_count = 0,
                   ![t].failed_ticks = silent,
                   ![t].pc = "put_back"]
        ELSE tasks' = [tasks EXCEPT
                   ![t].retry_count = @ + 1,
                   ![t].failed_ticks = silent,
                   ![t].pc = "poll"]

\* schedule_group_polling_loop: the interval is over and the read returned.
PollTick(t) ==
    /\ tasks[t].pc = "poll"
    /\ \E r \in ReadOutcomes(tasks[t]) : PollResult(t, r)
    /\ UNCHANGED <<txVars, tbVars, csvVars, iecVars, logVars, storeVars, device_tasks, device_clients,
                   clients_lock, calls>>

\* The Reading status row after an Ok read.
WriteReading(t) ==
    /\ tasks[t].pc = "status_reading"
    /\ device_status' = [device_status EXCEPT ![tasks[t].device_id] =
                            Status("Reading", None, 0)]
    /\ tasks' = [tasks EXCEPT ![t].pc = "poll", ![t].result = <<>>]
    /\ UNCHANGED <<txVars, tbVars, csvVars, iecVars, logVars, devices, device_tags, schedule_groups,
                   device_tasks, device_clients, clients_lock, calls>>

\* ---------------------------------------------------------- specifications
\* Spec: requests are served one at a time; the device may answer or not.
Init == InitSupervisor({"modbus_tcp", "iec104"}, 1..MaxRetry, {TRUE})

Next ==
    \/ \E d \in DeviceIds : StartDevice(1, d) \/ StopDevice(1, d)
    \/ StartDevice_StopTasks(1)
    \/ StopDevice_Client(1)
    \/ StopDevice_Status(1)
    \/ StartDevice_GetTags(1)
    \/ StartDevice_Spawn(1)
    \/ StartDevice_InsertTasks(1)
    \/ StartDevice_Status(1)
    \/ Return(1)
    \/ \E t \in TaskIds :
        \/ TakeClient(t)
        \/ \E reachable \in BOOLEAN : Connect(t, reachable)
        \/ WriteConnected(t)
        \/ WriteError(t)
        \/ PutBack(t)
        \/ Backoff(t)
        \/ PollTick(t)
        \/ WriteReading(t)

Spec == Init /\ [][Next]_vars

\* SpecLifecycle: one request stream starts and stops the device while
\* another edits its configuration; the device cannot be reached.
InitLifecycle == InitSupervisor({"modbus_tcp"}, {1}, {TRUE})

NextLifecycle ==
    \/ \E d \in DeviceIds : StartDevice(1, d) \/ StopDevice(1, d)
    \/ StartDevice_StopTasks(1)
    \/ StopDevice_Client(1)
    \/ StopDevice_Status(1)
    \/ StartDevice_GetTags(1)
    \/ StartDevice_Spawn(1)
    \/ StartDevice_InsertTasks(1)
    \/ StartDevice_Status(1)
    \/ Return(1)
    \/ \E d \in DeviceIds : UpdateDevice(2, d)
    \/ UpdateScheduleGroup(2)
    \/ UpdateDevice_DeleteTags(2)
    \/ UpdateDevice_CreateTags(2)
    \/ Return(2)
    \/ \E t \in TaskIds :
        \/ TakeClient(t)
        \/ Connect(t, FALSE)
        \/ WriteError(t)
        \/ PutBack(t)
        \/ Backoff(t)

SpecLifecycle == InitLifecycle /\ [][NextLifecycle]_vars

\* SpecRace: start and stop requests served concurrently for a device with
\* one schedule group to poll; the device cannot be reached.
InitRace == InitSupervisor({"modbus_tcp"}, {1}, {FALSE})

NextRace ==
    \/ \E c \in CallerIds :
        \/ \E d \in DeviceIds : StartDevice(c, d) \/ StopDevice(c, d)
        \/ StartDevice_StopTasks(c)
        \/ StopDevice_Client(c)
        \/ StopDevice_Status(c)
        \/ StartDevice_GetTags(c)
        \/ StartDevice_Spawn(c)
        \/ StartDevice_InsertTasks(c)
        \/ StartDevice_Status(c)
        \/ Return(c)
    \/ \E t \in TaskIds :
        \/ TakeClient(t)
        \/ Connect(t, FALSE)
        \/ WriteError(t)
        \/ PutBack(t)
        \/ Backoff(t)

SpecRace == InitRace /\ [][NextRace]_vars

\* ------------------------------------------------------------------ claims
LiveTasks(d) == {t \in TaskIds : tasks[t] # NoTask /\ tasks[t].device_id = d}

\* The groups that hold an enabled tag, as the spec words it.
C3_Groups(tags_in, groups) ==
    {g.id : g \in {x \in groups :
        /\ x.enabled
        /\ \E i \in 1..Len(tags_in) :
              /\ tags_in[i].enabled
              /\ \/ tags_in[i].schedule_group_id = x.id
                 \/ tags_in[i].schedule_group_id = None /\ x.id = "medium_freq"}}

\* C3: whenever a start_device of an enabled device has returned Ok and no
\* stop_device has been called since, the running loops of the device are
\* the enabled schedule groups that currently hold an enabled tag of the
\* device, whatever device, tag and schedule-group updates took place.
C3_LoopsMatchCurrentConfig ==
    \A c \in CallerIds :
        (/\ calls[c].op = "start_device"
         /\ calls[c].pc = "returned"
         /\ calls[c].ret = "Ok"
         /\ calls[c].enabled) =>
            {tasks[t].group : t \in LiveTasks(calls[c].device_id)}
                = C3_Groups(device_tags[calls[c].device_id], schedule_groups)

StartInFlight(c) ==
    calls[c].op = "start_device" /\ calls[c].pc \notin {"idle", "returned"}

\* C4: a stop_device(d) that runs while no start_device is in progress
\* cancels every loop task ever spawned for d: once it has aborted the
\* registered tasks, no task of d is running and is_device_running(d) is
\* false (only a later start_device could spawn a task again).
C4_StopCancelsEveryLoop ==
    [][\A c \in CallerIds, d \in DeviceIds :
          (/\ calls[c].pc = "idle"
           /\ calls'[c].op = "stop_device"
           /\ calls'[c].device_id = d
           /\ \A c2 \in CallerIds : ~StartInFlight(c2)) =>
              /\ LiveTasks(d)' = {}
              /\ ~is_device_running(d)']_vars

PollingPhase == {"poll", "status_reading"}

\* C5, for a Modbus device: a loop whose device has failed to answer on
\* retry_count consecutive ticks is no longer in its polling phase.
C5_FailedTicksLeavePolling ==
    \A t \in TaskIds :
        (/\ tasks[t] # NoTask
         /\ tasks[t].device_config.protocol = "modbus_tcp"
         /\ tasks[t].failed_ticks >= tasks[t].device_config.retry_count) =>
            tasks[t].pc \notin PollingPhase

ClientsOf(d) ==
    {device_clients[x][1].id : x \in {y \in {d} : device_clients[y] # <<>>}}
    \cup {tasks[t].client[1].id : t \in {u \in LiveTasks(d) : tasks[u].client # <<>>}}

\* C6: at most one protocol client of a device exists at any instant, in the
\* cache or held by a loop.
C6_OneClientPerDevice ==
    \A d \in DeviceIds : Cardinality(ClientsOf(d)) <= 1

\* C7: a client instance is in the cache or held by exactly one loop, never
\* in two places at once.
C7_ClientSingleOwner ==
    /\ \A t, u \in TaskIds :
          (t # u /\ tasks[t] # NoTask /\ tasks[u] # NoTask
              /\ tasks[t].client # <<>> /\ tasks[u].client # <<>>) =>
                  tasks[t].client[1].id # tasks[u].client[1].id
    /\ \A t \in TaskIds, d \in DeviceIds :
          (tasks[t] # NoTask /\ tasks[t].client # <<>> /\ device_clients[d] # <<>>) =>
              tasks[t].client[1].id # device_clients[d][1].id

\* One loop polls with its client while the client another loop returned
\* sits in the cache.
C7_Witness ==
    \E t \in TaskIds, d \in DeviceIds :
        /\ tasks[t] # NoTask
        /\ tasks[t].pc = "poll"
        /\ tasks[t].client # <<>>
        /\ device_clients[d] # <<>>

\* C8: a loop ends only by being aborted; a failed connect is followed by
\* the Error status row carrying the error message, then the client's return
\* to the cache, the backoff, and the next connect attempt.
C8_LoopRetriesForever ==
    [][\A t \in TaskIds :
          tasks[t] # NoTask =>
              IF tasks'[t] = NoTask
              THEN t \in device_tasks[tasks[t].device_id]
                   /\ device_tasks'[tasks[t].device_id] = {}
              ELSE tasks'[t].pc # tasks[t].pc =>
                  /\ tasks[t].pc = "status_error" =>
                        /\ tasks'[t].pc = "put_back"
                        /\ tasks[t].error # None
                        /\ device_status'[tasks[t].device_id].status = "Error"
                        /\ device_status'[tasks[t].device_id].error_message
                              = tasks[t].error
                  /\ tasks[t].pc = "put_back" => tasks'[t].pc = "backoff"
                  /\ tasks[t].pc = "backoff" => tasks'[t].pc = "take"
                  /\ tasks[t].pc = "take" => tasks'[t].pc = "connect"]_vars

\* A loop is connecting again after a failed attempt was recorded.
C8_Witness ==
    \E t \in TaskIds :
        /\ tasks[t] # NoTask
        /\ tasks[t].pc = "connect"
        /\ tasks[t].connection_count = 0
        /\ device_status[tasks[t].device_id].status = "Error"
        /\ device_status[tasks[t].device_id].error_message # None

\* C9: a start_device that returns Ok for an enabled device with nothing to
\* poll has spawned no loop and leaves the status row at Starting.
C9_NoTagsLeavesStarting ==
    \A c \in CallerIds :
        (/\ calls[c].op = "start_device"
         /\ calls[c].pc = "returned"
         /\ calls[c].ret = "Ok"
         /\ calls[c].enabled
         /\ calls[c].spawned = {}) =>
            device_status[calls[c].device_id].status = "Starting"

\* C10, for a Modbus device: between a start and the next stop, no status
\* write lowers the connection_count of the device's row.
C10_ConnectionCountMonotonic ==
    [][\A d \in DeviceIds :
          (/\ devices[d] # <<>>
           /\ devices[d][1].protocol = "modbus_tcp"
           /\ device_status'[d] # device_status[d]
           /\ device_status[d].status \in {"Starting", "Connected", "Reading", "Error"}
           /\ device_status'[d].status \in {"Connected", "Reading", "Error"}) =>
              device_status'[d].connection_count >= device_status[d].connection_count]_vars

\* ------------------------------------------------------------- log cap task
\* config.database.max_log_entries, scaled down to the model's cap.
max_log_entries == MaxCap

\* One tick of the cleanup task: database.cleanup_old_entries(max_entries)
\* with the configured cap. The interval is cleanup_interval_hours; appends
\* are free to happen between two ticks.
CleanupTask ==
    \E r \in cleanup_old_entries(log_entries, max_log_entries) :
        /\ log_entries' = r.table
        /\ op' = [name |-> "cleanup_old_entries",
                  max_entries |-> max_log_entries, ret |-> r.ret]
        /\ UNCHANGED <<txVars, tbVars, csvVars, iecVars, log_seq, modbus, storeVars, supVars>>

NextCap == InsertLogEntry \/ CleanupTask

SpecCap == InitLog /\ [][NextCap]_vars

\* C11: the number of stored log rows never exceeds max_log_entries.
C11_LogWithinCap == Cardinality(log_entries) <= max_log_entries

\* C12: a polling tick whose appends all succeed leaves one new log row per
\* LogEntry the read returned, Good or Bad (the tick is the loop's call of
\* read_specific_tags; the loop itself appends nothing).
C12_EveryEntryAppended ==
    [][(op'.name = "read_specific_tags" /\ op'.db_ok) =>
          Cardinality(log_entries' \ log_entries) = Len(op'.ret.value)]_vars

\* --------------------------------------------------- IEC 104 client, frames
START_BYTE == 104
APDU_MIN_LEN == 4
I_FORMAT == 0
U_FORMAT == 3
STARTDT_ACT == 7
STARTDT_CON == 11
STOPDT_ACT == 19
STOPDT_CON == 35
M_SP_NA_1 == 1
M_ME_NB_1 == 11
M_ME_NC_1 == 13
\* The modulus of send_interrogation's counter update.
SEQ_MODULUS == 32768

\* BufMut::put_u16_le
put_u16_le(x) == <<x % 256, (x \div 256) % 256>>
\* u16 << 1
Shl1(x) == (x * 2) % 65536
\* i16::from_le_bytes
i16_from_le_bytes(lo, hi) ==
    LET u == lo + 256 * hi IN IF u > 32767 THEN u - 65536 ELSE u

\* Iec104Client::new
Iec104_new(device_id) ==
    [device_id |-> device_id, common_address |-> 1, stream |-> None,
     send_sequence |-> 0, receive_sequence |-> 0]

\* send_u_format: the six bytes written, when the stream takes them.
send_u_format(client, control, write_ok) ==
    IF client.stream = None THEN [ret |-> Err("Not connected"), sent |-> <<>>]
    ELSE IF ~write_ok THEN [ret |-> Err("io"), sent |-> <<>>]
    ELSE [ret |-> Ok("unit"), sent |-> <<START_BYTE, 4, control, 0, 0, 0>>]

\* A counter that moves by two.
NextSendSequenceSkipping(s) == (s + 2) % SEQ_MODULUS

\* self.send_sequence = (self.send_sequence + 1) % 32768
NextSendSequence(s) == (s + 1) % SEQ_MODULUS

\* send_interrogation: the C_IC_NA_1 I-frame; the counter moves only when
\* write_all succeeded.
send_interrogation(client, write_ok) ==
    IF client.stream = None
    THEN [client |-> client, ret |-> Err("Not connected"), sent |-> <<>>]
    ELSE IF ~write_ok
    THEN [client |-> client, ret |-> Err("io"), sent |-> <<>>]
    ELSE [client |-> [client EXCEPT !.send_sequence = NextSendSequence(@)],
          ret |-> Ok("unit"),
          sent |-> <<START_BYTE, 14>>
                   \o put_u16_le(Shl1(client.send_sequence))
                   \o put_u16_le(Shl1(client.receive_sequence))
                   \o <<100, 1, 6, 0>>
                   \o put_u16_le(client.common_address)
                   \o <<0, 0, 0, 20>>]

\* receive_frame on the bytes the peer makes available before it goes quiet
\* or closes: start byte, length, then exactly `length` bytes.
receive_frame(client, inbound) ==
    IF client.stream = None THEN Err("Not connected")
    ELSE IF Len(inbound) < 1 THEN Err("eof")
    ELSE IF inbound[1] # START_BYTE THEN Err("Invalid start byte")
    ELSE IF Len(inbound) < 2 THEN Err("eof")
    ELSE IF inbound[2] < APDU_MIN_LEN THEN Err("Frame too short")
    ELSE IF Len(inbound) < 2 + inbound[2] THEN Err("eof")
    ELSE Ok(SubSeq(inbound, 1, 2 + inbound[2]))

\* Any U-format frame read as the confirmation of STARTDT.
parse_u_format_any_confirms(frame) ==
    IF Len(frame) >= 6 /\ frame[3] % 4 = U_FORMAT THEN <<STARTDT_CON>> ELSE <<>>

\* parse_u_format: Some(control) as <<control>>, None as <<>>.
parse_u_format(frame) ==
    IF Len(frame) >= 6 /\ frame[3] % 4 = U_FORMAT THEN <<frame[3]>> ELSE <<>>

\* Iec104Client::connect
Iec104_connect(client, reachable, write_ok, reply) ==
    IF ~reachable
    THEN [client |-> client, sent |-> <<>>,
          ret |-> Err("Failed to connect to IEC 104 device")]
    ELSE LET c == [client EXCEPT !.stream = "tcp"]
             s == send_u_format(c, STARTDT_ACT, write_ok)
             r == receive_frame(c, reply)
             u == parse_u_format(r.value)
         IN  [client |-> c, sent |-> s.sent,
              ret |-> IF ~s.ret.ok THEN s.ret
                      ELSE IF ~r.ok THEN r
                      ELSE IF u = <<>> THEN Err("Expected U-format STARTDT_CON")
                      ELSE IF u[1] = STARTDT_CON THEN Ok("unit")
                      ELSE Err("Unexpected U-format response")]

\* Iec104Client::disconnect
Iec104_disconnect(client, write_ok) ==
    IF client.stream = None
    THEN [client |-> client, sent |-> <<>>, ret |-> Ok("unit")]
    ELSE LET s == send_u_format(client, STOPDT_ACT, write_ok) IN
         IF ~s.ret.ok THEN [client |-> client, sent |-> <<>>, ret |-> s.ret]
         ELSE [client |-> [client EXCEPT !.stream = None], sent |-> s.sent,
               ret |-> Ok("unit")]

\* The 3-byte little-endian IOA at bytes 12..14 of the frame.
Ioa(frame) == frame[13] + 256 * frame[14] + 65536 * frame[15]

\* format!("{prefix}{ioa}")
TagName(prefix, ioa) == <<prefix, ioa>>

\* parse_data_frame: Some(entries) as <<entries>>, None as <<>>. Byte i of
\* the Rust slice is frame[i + 1].
parse_data_frame(client, frame, timestamp) ==
    IF Len(frame) < 6 THEN <<>>
    ELSE IF frame[3] % 2 # I_FORMAT THEN <<>>
    ELSE IF Len(frame) < 12 THEN <<>>
    ELSE LET type_id == frame[7]
             entries ==
                 CASE type_id = M_ME_NC_1 ->
                        IF Len(frame) >= 19
                        THEN <<LogEntry(client.device_id,
                                        TagName("float_", Ioa(frame)),
                                        AsF64(f32_from_le_bytes(
                                            <<frame[16], frame[17], frame[18],
                                              frame[19]>>)),
                                        "Good", timestamp, None)>>
                        ELSE <<>>
                   [] type_id = M_ME_NB_1 ->
                        IF Len(frame) >= 17
                        THEN <<LogEntry(client.device_id,
                                        TagName("scaled_", Ioa(frame)),
                                        i16_from_le_bytes(frame[16], frame[17]),
                                        "Good", timestamp, None)>>
                        ELSE <<>>
                   [] type_id = M_SP_NA_1 ->
                        IF Len(frame) >= 16
                        THEN <<LogEntry(client.device_id,
                                        TagName("sp_", Ioa(frame)),
                                        frame[16] % 2,
                                        "Good", timestamp, None)>>
                        ELSE <<>>
                   [] OTHER -> <<>>
         IN  IF entries = <<>> THEN <<>> ELSE <<entries>>

\* read_tags' inner loop over the entries of one frame: insert, then push.
RECURSIVE InsertEntries(_, _, _, _)
InsertEntries(acc, entries, db_ok, i) ==
    IF i > Len(entries) THEN acc
    ELSE LET ins == insert_log_entry(acc.table, acc.seq, entries[i]) IN
         InsertEntries([entries |-> Append(acc.entries, entries[i]),
                        table |-> IF db_ok THEN ins.table ELSE acc.table,
                        seq |-> IF db_ok THEN ins.seq ELSE acc.seq],
                       entries, db_ok, i + 1)

\* read_tags' `for _ in 0..10`: inbound[i] is what the peer makes available
\* to the i-th receive_frame; past the end of inbound the 1 s timeout fires.
\* A loop that goes on for as long as frames arrive.
NeverPastFrameLimit(i) == FALSE

\* for _ in 0..10
PastFrameLimit(i) == i > 10

RECURSIVE ReceiveFrames(_, _, _, _, _, _)
ReceiveFrames(client, acc, inbound, db_ok, timestamp, i) ==
    IF PastFrameLimit(i) \/ i > Len(inbound) THEN acc
    ELSE LET r == receive_frame(client, inbound[i]) IN
         IF ~r.ok THEN acc
         ELSE LET parsed == parse_data_frame(client, r.value, timestamp) IN
              ReceiveFrames(client,
                            IF parsed = <<>> THEN acc
                            ELSE InsertEntries(acc, parsed[1], db_ok, 1),
                            inbound, db_ok, timestamp, i + 1)

\* Iec104Client::read_tags
Iec104_read_tags(client, table, seq, write_ok, inbound, db_ok, timestamp) ==
    LET s == send_interrogation(client, write_ok)
        acc == ReceiveFrames(s.client,
                             [entries |-> <<>>, table |-> table, seq |-> seq],
                             inbound, db_ok, timestamp, 1)
    IN  IF ~s.ret.ok
        THEN [client |-> s.client, sent |-> <<>>, ret |-> s.ret,
              table |-> table, seq |-> seq]
        ELSE [client |-> s.client, sent |-> s.sent, ret |-> Ok(acc.entries),
              table |-> acc.table, seq |-> acc.seq]

\* Inbound frames considered per interrogation.
MaxFrames == 2
\* Interrogations per client instance in SpecIec.
MaxInterrogations == 2

\* What a peer may put on the stream: ASDUs from the common address on.
AsduKinds == {"sp1", "sp2", "nb1", "nc1", "me_na"}
Asdu(kind) ==
    CASE kind = "sp1" -> <<M_SP_NA_1, 1, 20, 0, 1, 0,  5, 0, 0, 1>>
      [] kind = "sp2" -> <<M_SP_NA_1, 2, 20, 0, 1, 0,  5, 0, 0, 1,  6, 0, 0, 0>>
      [] kind = "nb1" -> <<M_ME_NB_1, 1, 20, 0, 1, 0,  2, 1, 0, 254, 255, 0>>
      [] kind = "nc1" -> <<M_ME_NC_1, 1, 20, 0, 1, 0,  0, 0, 1, 0, 0, 72, 66, 0>>
      [] kind = "me_na" -> <<9, 1, 20, 0, 1, 0,  7, 0, 0, 0, 64, 0>>

\* An I-format APDU of the peer with send sequence number ns.
IFrame(ns, asdu) ==
    <<START_BYTE, 4 + Len(asdu)>> \o put_u16_le(Shl1(ns)) \o put_u16_le(0)
        \o asdu
UFrame(control) == <<START_BYTE, 4, control, 0, 0, 0>>
SFrame == <<START_BYTE, 4, 1, 0, 0, 0>>

ChunkKinds == AsduKinds \cup {"s", "garbage"}

\* The peer's bytes for one receive_frame; ns numbers its I-frames.
RECURSIVE PeerChunks(_, _, _)
PeerChunks(kinds, ns, i) ==
    IF i > Len(kinds) THEN <<>>
    ELSE IF kinds[i] \in AsduKinds
    THEN <<IFrame(ns, Asdu(kinds[i]))>> \o PeerChunks(kinds, ns + 1, i + 1)
    ELSE <<IF kinds[i] = "s" THEN SFrame ELSE <<103>>>>
            \o PeerChunks(kinds, ns, i + 1)

\* The I-frames among the chunks the client got through.
RECURSIVE DeliveredIFrames(_, _)
DeliveredIFrames(kinds, i) ==
    IF i > Len(kinds) \/ kinds[i] = "garbage" THEN 0
    ELSE (IF kinds[i] \in AsduKinds THEN 1 ELSE 0) + DeliveredIFrames(kinds, i + 1)

Inbounds ==
    UNION {[1..n -> ChunkKinds] : n \in 0..MaxFrames}

HandshakeReplies ==
    {UFrame(STARTDT_CON), UFrame(STOPDT_CON), UFrame(131), SFrame,
     IFrame(0, Asdu("sp1")), <<103, 4, STARTDT_CON, 0, 0, 0>>,
     <<START_BYTE, 3, STARTDT_CON, 0, 0>>, <<>>}

\* A new TCP stream as the peer sees it: nothing written yet, data transfer
\* not started, no I-frame delivered.
\* Utc::now() of the ticks of this driver.
Now == CHOOSE t \in ReadInstants : TRUE

NewWire == [tx |-> <<>>, tx_i |-> <<>>, started |-> FALSE, delivered |-> 0]

InitIec ==
    /\ log_entries = {}
    /\ log_seq = 0
    /\ op = [name |-> "new"]
    /\ modbus = None
    /\ devices = [d \in DeviceIds |-> <<>>]
    /\ device_tags = [d \in DeviceIds |-> <<>>]
    /\ schedule_groups = {}
    /\ device_status = [d \in DeviceIds |-> NoStatus]
    /\ device_tasks = [d \in DeviceIds |-> {}]
    /\ device_clients = [d \in DeviceIds |-> <<>>]
    /\ clients_lock = 0
    /\ tasks = [t \in TaskIds |-> NoTask]
    /\ calls = [c \in CallerIds |-> IdleCall]
    /\ iec104 = [client |-> Iec104_new("d1"), pc |-> "connect"]
    /\ wire = NewWire
    /\ modbus_tcp_tag_registers = EmptyBag
    /\ device_models = {}
    /\ thingsboard = None
    /\ plant_config = None
    /\ tag_templates = EmptyBag
    /\ connection = None

\* schedule_group_loop's connect on the IEC 104 client: on Ok the loop
\* polls, on Err it comes back to connect after the backoff.
IecConnect ==
    /\ iec104.pc = "connect"
    /\ \E reachable \in BOOLEAN :
       \E write_ok \in IF reachable THEN BOOLEAN ELSE {TRUE} :
       \E reply \in IF reachable /\ write_ok THEN HandshakeReplies ELSE {<<>>} :
        LET r == Iec104_connect(iec104.client, reachable, write_ok, reply) IN
        /\ iec104' = [client |-> r.client,
                      pc |-> IF r.ret.ok THEN "poll" ELSE "connect"]
        /\ wire' = IF ~reachable THEN wire
                   ELSE [tx |-> r.sent, tx_i |-> wire.tx_i,
                         started |-> write_ok /\ reply = UFrame(STARTDT_CON),
                         delivered |-> 0]
        /\ op' = [name |-> "connect", reachable |-> reachable,
                  write_ok |-> write_ok, reply |-> reply, ret |-> r.ret]
    /\ UNCHANGED <<txVars, tbVars, csvVars, log_entries, log_seq, modbus, storeVars, supVars>>

\* One polling tick: an interrogation and the frames that follow it. An Err
\* ends the polling phase when it is the retry_count-th in a row.
IecReadTags(limit, choices, write_oks) ==
    /\ iec104.pc = "poll"
    /\ iec104.client.send_sequence < limit
    /\ \E write_ok \in write_oks :
       \E kinds \in IF write_ok THEN choices ELSE {<<>>} :
       \E db_ok \in IF kinds = <<>> THEN {TRUE} ELSE BOOLEAN :
       \E leave \in IF write_ok THEN {FALSE} ELSE BOOLEAN :
        LET inbound == PeerChunks(kinds, wire.delivered, 1)
            r == Iec104_read_tags(iec104.client, log_entries, log_seq,
                                  write_ok, inbound, db_ok, Now)
        IN  /\ log_seq + Len(kinds) <= MaxRowId
            /\ iec104' = [client |-> r.client,
                          pc |-> IF leave THEN "connect" ELSE "poll"]
            /\ wire' = IF r.sent = <<>> THEN wire
                       ELSE [wire EXCEPT
                               !.tx = r.sent, !.tx_i = r.sent,
                               !.delivered = @ + DeliveredIFrames(kinds, 1)]
            /\ log_entries' = r.table
            /\ log_seq' = r.seq
            /\ op' = [name |-> "read_tags", kinds |-> kinds,
                      sent |-> r.sent, ret |-> r.ret]
    /\ UNCHANGED <<txVars, tbVars, csvVars, modbus, storeVars, supVars>>

\* stop_device: a client in the cache is disconnected and dropped, a client
\* held by the aborted loop is dropped with it; the next start builds a new
\* client.
IecStop ==
    /\ \E write_ok \in BOOLEAN :
        LET r == Iec104_disconnect(iec104.client, write_ok) IN
        /\ op' = IF iec104.pc = "connect"
                 THEN [name |-> "disconnect", sent |-> r.sent, ret |-> r.ret]
                 ELSE [name |-> "abort"]
    /\ iec104' = [client |-> Iec104_new("d1"), pc |-> "connect"]
    /\ wire' = NewWire
    /\ UNCHANGED <<txVars, tbVars, csvVars, log_entries, log_seq, modbus, storeVars, supVars>>

NextIec ==
    IecConnect \/ IecReadTags(MaxInterrogations, Inbounds, BOOLEAN) \/ IecStop

SpecIec == InitIec /\ [][NextIec]_vars

\* The counter through its whole range: interrogations that nothing answers.
NextIecSeq ==
    IecConnect \/ IecReadTags(SEQ_MODULUS, {<<>>}, {TRUE}) \/ IecStop

SpecIecSeq == InitIec /\ [][NextIecSeq]_vars

\* Interrogations per client instance in SpecIecLoop.
MaxLoopSends == 12

\* The loop around the handshake: connects, unanswered interrogations, failed
\* writes that end the polling phase, reconnects of the same client.
NextIecLoop ==
    IecConnect \/ IecReadTags(MaxLoopSends, {<<>>}, BOOLEAN) \/ IecStop

SpecIecLoop == InitIec /\ [][NextIecLoop]_vars

\* N(S) and N(R) of an I-format APDU as the peer decodes them.
NS(frame) == (frame[3] + 256 * frame[4]) \div 2
NR(frame) == (frame[5] + 256 * frame[6]) \div 2

\* C13: of two consecutive I-frames sent by one client, the second carries the
\* send sequence number of the first plus one modulo 32768, so the frame after
\* number 32767 carries 0.
C13_SendSequenceIncrements ==
    [][(/\ op'.name = "read_tags"
        /\ op'.sent # <<>>
        /\ wire.tx_i # <<>>)
       => NS(op'.sent) = (NS(wire.tx_i) + 1) % 32768]_vars

\* The frame numbered 32767 is out and the counter is back at 0.
C13_Witness ==
    /\ wire.tx_i # <<>>
    /\ NS(wire.tx_i) = 32767
    /\ iec104.client.send_sequence = 0

\* C14: after k I-frames received on a connection the client's
\* receive_sequence is k modulo 32768, and the next I-frame it sends carries
\* that value as N(R).
C14_ReceiveSequenceCounts ==
    [][op'.name = "read_tags"
       => /\ iec104'.client.receive_sequence = wire'.delivered % SEQ_MODULUS
          /\ op'.sent # <<>> => NR(op'.sent) = wire.delivered % SEQ_MODULUS]_vars

\* The first frame of the reply is a U-format frame with control STARTDT_CON.
IsStartdtCon(reply) ==
    /\ Len(reply) >= 6
    /\ reply[1] = 104
    /\ reply[2] >= 4
    /\ reply[3] = 11

\* C15: connect sends STARTDT_ACT (68 04 07 00 00 00) first and succeeds
\* exactly when the first frame it receives is a U-format frame with control
\* byte STARTDT_CON; any other reply (STOPDT_CON, an I- or S-frame, a wrong
\* start byte, a length below 4) is an error, and no interrogation I-frame is
\* sent before a successful connect.
C15_HandshakeGatesTransfer ==
    [][/\ (op'.name = "connect" /\ op'.reachable /\ op'.write_ok)
          => /\ wire'.tx = <<104, 4, 7, 0, 0, 0>>
             /\ op'.ret.ok <=> IsStartdtCon(op'.reply)
       /\ (op'.name = "read_tags" /\ op'.sent # <<>>) => wire.started]_vars

\* A connect answered with STOPDT_CON failed after STARTDT_ACT went out, and
\* no I-frame has been sent.
C15_Witness ==
    /\ op.name = "connect"
    /\ op.reply = <<104, 4, 35, 0, 0, 0>>
    /\ ~op.ret.ok
    /\ wire.tx = <<104, 4, 7, 0, 0, 0>>
    /\ wire.tx_i = <<>>

\* Number of information objects of an ASDU: the low seven bits of its
\* variable structure qualifier.
NumberOfObjects(asdu) == asdu[2] % 128

\* Entries of one received chunk as the claim counts them: k for an I-frame
\* of a parsed type with k objects.
ParsedTypes == {M_SP_NA_1, M_ME_NB_1, M_ME_NC_1}

RECURSIVE ExpectedEntries(_, _)
ExpectedEntries(kinds, i) ==
    IF i > Len(kinds) \/ kinds[i] = "garbage" THEN 0
    ELSE (IF kinds[i] \in AsduKinds /\ Asdu(kinds[i])[1] \in ParsedTypes
          THEN NumberOfObjects(Asdu(kinds[i])) ELSE 0)
         + ExpectedEntries(kinds, i + 1)

\* C16: for every received I-frame of type M_SP_NA_1, M_ME_NB_1 or M_ME_NC_1
\* with k >= 1 information objects the client emits exactly k LogEntries.
C16_OneEntryPerObject ==
    [][(op'.name = "read_tags" /\ op'.ret.ok)
       => Len(op'.ret.value) = ExpectedEntries(op'.kinds, 1)]_vars

\* Registers a read_tag of this data type asks the device for.
RegisterCount(data_type) ==
    IF data_type \in {"UInt32", "Int32", "Float32"} THEN 2 ELSE 1

WideCatalog ==
    {DeviceTag("w1", "uint32", 1, 0, TRUE, None),
     DeviceTag("w2", "int32", 1, 0, TRUE, None)}

\* Rows stored in SpecWide.
MaxWideRows == 1

\* Contents of the two registers at the tag's address: reg[0], reg[1].
LowWords == {0, 1, 65534, 65535}
HighWords == {0, 1, 32767, 32768, 65535}

\* read_specific_tags over one 32-bit tag of a device holding regs. The
\* unsigned result is kept below 2^31, the width of TLC's integers.
ModbusReadWide ==
    \E device_tag \in WideCatalog, lo \in LowWords, hi \in HighWords,
       db_ok \in BOOLEAN, now \in ReadInstants :
        LET regs == <<lo, hi>>
            n == RegisterCount(parse_data_type(device_tag.data_type))
            resp == [err |-> FALSE, words |-> SubSeq(regs, 1, n)]
            r == read_specific_tags(modbus, log_entries, log_seq,
                                    <<device_tag>>, <<resp>>, db_ok, now)
        IN  /\ parse_data_type(device_tag.data_type) = "UInt32" => hi < 32768
            /\ db_ok => log_seq + 1 <= MaxWideRows
            /\ log_entries' = r.table
            /\ log_seq' = r.seq
            /\ op' = [name |-> "read_wide", device_tag |-> device_tag,
                      regs |-> regs, read |-> n, ret |-> r.ret]
            /\ UNCHANGED <<txVars, tbVars, csvVars, iecVars, modbus, storeVars, supVars>>

NextWide == ModbusConnect \/ ModbusDisconnect \/ ModbusReadWide

SpecWide == InitRead /\ [][NextWide]_vars

\* (reg[1] << 16) | reg[0] read as a two's-complement 32-bit integer.
Signed32(regs) ==
    IF regs[2] >= 32768
    THEN (regs[2] - 65536) * 65536 + regs[1]
    ELSE regs[2] * 65536 + regs[1]

\* C17: for a DeviceTag of data_type uint32 or int32, read_specific_tags
\* reads two registers and yields (reg[1] << 16) | reg[0], unsigned for uint32
\* and two's-complement signed for int32.
C17_WideTagsCombineTwoRegisters ==
    [][(op'.name = "read_wide" /\ op'.ret.value[1].quality = "Good")
       => /\ op'.read = 2
          /\ op'.ret.value[1].value =
                IF op'.device_tag.data_type = "int32"
                THEN Signed32(op'.regs)
                ELSE op'.regs[2] * 65536 + op'.regs[1]]_vars

\* Register contents whose decodings cover the cases of the float32 arm: 50.0
\* and values near it, small and negative values, 500 and 2000, NaN, infinity.
FloatWords == {0, 1, 16968, 17008, 48896, 17402, 32704, 32640, 17658}

FloatTag(address, size) ==
    [name |-> "f1", address |-> address, size |-> size,
     data_type |-> parse_data_type("float32"),
     scaling |-> [some |-> FALSE]]

\* read_tag on a float32 tag; the device answers with tag.size registers.
ModbusReadFloat ==
    \E address \in {FREQUENCY_ADDRESS, 100}, size \in 1..2,
       reg0 \in FloatWords, reg1 \in FloatWords, err \in BOOLEAN :
        LET tag == FloatTag(address, size)
            regs == <<reg0, reg1>>
            resp == [err |-> err, words |-> SubSeq(regs, 1, size)]
        IN  /\ op' = [name |-> "read_float", tag |-> tag, regs |-> regs,
                      ret |-> read_tag(modbus, tag, resp)]
            /\ UNCHANGED <<txVars, tbVars, csvVars, iecVars, log_entries, log_seq, modbus, storeVars,
                           supVars>>

NextFloat == ModbusConnect \/ ModbusDisconnect \/ ModbusReadFloat

SpecFloat == InitRead /\ [][NextFloat]_vars

\* A decoding that is finite, strictly positive and below 1000.
PlausibleFrequency(c) ==
    /\ c.kind = "num"
    /\ ~c.neg
    /\ c.mant > 0
    /\ IF c.exp >= 0
       THEN BitLen(c.mant) + c.exp <= 10 /\ c.mant * Pow2(c.exp) < 1000
       ELSE c.exp < 0 - 20 \/ c.mant < 1000 * Pow2(0 - c.exp)

\* 100 - h for a float h in [50, 100).
Gap100(h) ==
    IF h.exp >= 0 THEN Dyadic(FALSE, 100 - h.mant * Pow2(h.exp), 0)
    ELSE Dyadic(FALSE, 100 * Pow2(0 - h.exp) - h.mant, h.exp)

\* |a - 50| < |b - 50| as real numbers, for a, b in (0, 1000).
StrictlyNearer50(a, b) ==
    LET fifty == Dyadic(FALSE, 50, 0)
        hundred == Dyadic(FALSE, 100, 0)
        a_low == MagLess(a, fifty)
        b_low == MagLess(b, fifty)
    IN  IF a_low /\ b_low THEN MagLess(b, a)
        ELSE IF ~a_low /\ ~b_low THEN MagLess(a, b)
        ELSE IF a_low
        THEN ~MagLess(b, hundred) \/ MagLess(Gap100(b), a)
        ELSE MagLess(a, hundred) /\ MagLess(b, Gap100(a))

\* C18: for a float32 tag at address 19050, whenever some decoding is finite,
\* strictly positive and below 1000, the selected value is such a decoding and
\* no other such decoding is strictly nearer to 50.0; at any other address the
\* ABCD decoding is selected.
C18_FrequencyPicksNearestPlausible ==
    [][(op'.name = "read_float" /\ op'.ret.ok)
       => LET candidates == Float32Candidates(op'.regs[1], op'.regs[2])
              plausible == {i \in DOMAIN candidates :
                                PlausibleFrequency(candidates[i])}
              selected == op'.ret.value
          IN  IF op'.tag.address = 19050
              THEN plausible # {}
                   => /\ \E i \in plausible : candidates[i] = selected
                      /\ \A i \in plausible :
                            ~StrictlyNearer50(candidates[i], selected)
              ELSE selected = candidates[1]]_vars

\* ------------------------------------------------ Modbus TCP tag CSV upload
\* Option<i32> is written <<>> for None and <<v>> for Some(v); the f64 divider
\* takes whole values.
CreateModbusTcpTagRegister(ava_type, mppt, input, size, modbus_type) ==
    [device_brand |-> "acme", device_model |-> "m1", ava_type |-> ava_type,
     mppt |-> mppt, input |-> input, data_label |-> "p", address |-> 100,
     size |-> size, modbus_type |-> modbus_type, divider |-> 1,
     register_type |-> "holding"]

valid_ava_types ==
    {"Inverter", "String", "MPPT", "Battery", "Meter", "Weather Station",
     "PowerMeter", "Plant"}
valid_modbus_types == {"U16", "I16", "U32", "I32", "FLOAT", "DOUBLE", "F32"}
valid_register_types == {"input", "holding", "coil", "discrete"}

\* The match on modbus_type: Some(expected_size) as <<n>>, the `continue`
\* arm as <<>>.
expected_size(modbus_type) ==
    CASE modbus_type \in {"U16", "I16"} -> <<1>>
      [] modbus_type \in {"U32", "I32", "FLOAT"} -> <<2>>
      [] modbus_type = "DOUBLE" -> <<4>>
      [] OTHER -> <<>>

\* The checks of one record after the size: address, MPPT and INPUT, divider.
ValidateAfterSize(record) ==
    IF record.address < 0 \/ record.address > 65535
    THEN Err("Address is out of valid range (0-65535)")
    ELSE IF record.ava_type = "Inverter"
            /\ (record.mppt # <<>> \/ record.input # <<>>)
    THEN Err("Inverter-level registers should not have MPPT or INPUT values")
    ELSE IF record.ava_type = "String"
            /\ (record.mppt = <<>> \/ record.input = <<>>)
    THEN Err("String-level registers must have both MPPT and INPUT values")
    ELSE IF record.ava_type = "String"
            /\ (record.mppt[1] < 1 \/ record.mppt[1] > 20)
    THEN Err("MPPT is out of valid range (1-20)")
    ELSE IF record.ava_type = "String"
            /\ (record.input[1] < 1 \/ record.input[1] > 50)
    THEN Err("INPUT is out of valid range (1-50)")
    ELSE IF record.divider <= 0
    THEN Err("Divider must be greater than 0")
    ELSE Ok("unit")

\* One turn of validate_record_data's loop: Err is the early return, Ok
\* moves to the next record. A modbus_type without an expected size
\* `continue`s: the checks after the size are skipped for that record.
ValidateRecord(record) ==
    IF record.device_brand = "" THEN Err("Device Brand cannot be empty")
    ELSE IF record.device_model = "" THEN Err("Device Model cannot be empty")
    ELSE IF record.ava_type = "" THEN Err("AVA Type cannot be empty")
    ELSE IF record.data_label = "" THEN Err("Data Label cannot be empty")
    ELSE IF record.ava_type \notin valid_ava_types THEN Err("Invalid AVA Type")
    ELSE IF record.modbus_type \notin valid_modbus_types
    THEN Err("Invalid Modbus Type")
    ELSE IF record.register_type \notin valid_register_types
    THEN Err("Invalid Register Type")
    ELSE IF expected_size(record.modbus_type) = <<>> THEN Ok("unit")
    ELSE IF record.size # expected_size(record.modbus_type)[1]
    THEN Err("Size doesn't match Modbus Type")
    ELSE ValidateAfterSize(record)

RECURSIVE ValidateFrom(_, _)
ValidateFrom(records, i) ==
    IF i > Len(records) THEN Ok("unit")
    ELSE IF ~ValidateRecord(records[i]).ok THEN ValidateRecord(records[i])
    ELSE ValidateFrom(records, i + 1)

\* ModbusTcpCsvParserService::validate_record_data
validate_record_data(records) == ValidateFrom(records, 1)

\* Records per call of validate_record_data.
MaxRecords == 2

RecordCatalog ==
    {CreateModbusTcpTagRegister(a, m, i, s, t) :
        a \in {"Inverter", "String", "MPPT"}, m \in {<<>>, <<1>>, <<21>>},
        i \in {<<>>, <<1>>, <<51>>}, s \in {1, 2, 4},
        t \in valid_modbus_types}
    \cup {[CreateModbusTcpTagRegister("Inverter", <<>>, <<>>, 1, "U16")
              EXCEPT !.divider = 0],
          [CreateModbusTcpTagRegister("Inverter", <<>>, <<>>, 1, "U16")
              EXCEPT !.address = 65536],
          [CreateModbusTcpTagRegister("Inverter", <<>>, <<>>, 1, "U16")
              EXCEPT !.data_label = ""],
          [CreateModbusTcpTagRegister("Inverter", <<>>, <<>>, 1, "U16")
              EXCEPT !.register_type = "Holding"],
          CreateModbusTcpTagRegister("", <<>>, <<>>, 1, "U16"),
          CreateModbusTcpTagRegister("inverter", <<>>, <<>>, 1, "U16"),
          CreateModbusTcpTagRegister("Inverter", <<>>, <<>>, 1, "U8")}
    \cup {[CreateModbusTcpTagRegister(a, <<>>, <<>>, ts[1], ts[2])
              EXCEPT !.address = ad, !.divider = dv] :
            a \in {"Inverter", "MPPT"},
            ts \in {<<1, "U16">>, <<2, "F32">>, <<4, "DOUBLE">>},
            ad \in {0 - 1, 0, 65535, 65536}, dv \in {0 - 1, 0, 1}}

\* Records ahead of the last one of a call.
LeadingRecords ==
    {CreateModbusTcpTagRegister("Inverter", <<>>, <<>>, 2, "F32"),
     CreateModbusTcpTagRegister("String", <<1>>, <<1>>, 4, "DOUBLE")}

RecordLists ==
    UNION {{Append(p, r) : p \in [1..(n - 1) -> LeadingRecords],
                           r \in RecordCatalog} : n \in 1..MaxRecords}

ValidateRecordData ==
    /\ \E records \in RecordLists :
        op' = [name |-> "validate_record_data", records |-> records,
               ret |-> validate_record_data(records)]
    /\ UNCHANGED <<txVars, tbVars, csvVars, iecVars, log_entries, log_seq, modbus, storeVars, supVars>>

NextValidate == ValidateRecordData

SpecValidate == InitLog /\ [][NextValidate]_vars

\* The size a modbus_type requires.
RequiredSize(modbus_type) ==
    CASE modbus_type \in {"U16", "I16"} -> 1
      [] modbus_type \in {"U32", "I32", "F32", "FLOAT"} -> 2
      [] modbus_type = "DOUBLE" -> 4

\* C20: every record accepted by validate_record_data has the size its
\* modbus_type requires (1 for U16 and I16, 2 for U32, I32, F32 and FLOAT, 4
\* for DOUBLE); a record whose size differs is rejected.
C20_AcceptedSizeMatchesType ==
    op.name = "validate_record_data" /\ op.ret.ok
    => \A i \in DOMAIN op.records :
          op.records[i].size = RequiredSize(op.records[i].modbus_type)

\* str::trim on the text of the MPPT and INPUT columns, a sequence of
\* characters.
RECURSIVE TrimStart(_)
TrimStart(s) == IF s # <<>> /\ Head(s) = " " THEN TrimStart(Tail(s)) ELSE s
RECURSIVE TrimEnd(_)
TrimEnd(s) ==
    IF s # <<>> /\ s[Len(s)] = " " THEN TrimEnd(SubSeq(s, 1, Len(s) - 1))
    ELSE s
Trim(s) == TrimEnd(TrimStart(s))

DecimalDigits == <<"0", "1", "2", "3", "4", "5", "6", "7", "8", "9">>
DigitValue(c) == (CHOOSE d \in DOMAIN DecimalDigits : DecimalDigits[d] = c) - 1
IsDecimalDigit(c) == \E d \in DOMAIN DecimalDigits : DecimalDigits[d] = c

RECURSIVE DecimalValue(_, _, _)
DecimalValue(s, i, acc) ==
    IF i > Len(s) THEN acc
    ELSE DecimalValue(s, i + 1, acc * 10 + DigitValue(s[i]))

\* str::parse::<i32>() on texts of at most nine digits: an optional sign,
\* then digits only.
ParseI32(s) ==
    LET signed == s # <<>> /\ s[1] \in {"+", "-"}
        digits == IF signed THEN Tail(s) ELSE s
    IN  IF digits = <<>> \/ Len(digits) > 9
           \/ \E i \in DOMAIN digits : ~IsDecimalDigit(digits[i])
        THEN Err("invalid digit found in string")
        ELSE Ok((IF signed /\ s[1] = "-" THEN 0 - 1 ELSE 1)
                * DecimalValue(digits, 1, 0))

\* parse_optional_int_from_string: Ok(None) as Ok(<<>>).
parse_optional_int_from_string(value) ==
    LET trimmed == Trim(value) IN
    IF trimmed = <<>> THEN Ok(<<>>)
    ELSE LET r == ParseI32(trimmed) IN
         IF r.ok THEN Ok(<<r.value>>) ELSE Err("Failed to parse")

\* str::trim on the texts of the other columns that occur here.
TrimText(s) ==
    CASE s = " String" -> "String"
      [] s = "Inverter " -> "Inverter"
      [] OTHER -> s

\* A row of the uploaded file as serde hands it over.
CsvModbusTcpTagRecord(ava_type, mppt, input, size, modbus_type) ==
    [device_brand |-> "brand in file", device_model |-> "model in file",
     ava_type |-> ava_type, mppt |-> mppt, input |-> input,
     data_label |-> "p", address |-> 100, size |-> size,
     modbus_type |-> modbus_type, divider |-> 1, register_type |-> "holding"]

\* convert_csv_record_to_create_tag_register_with_device_model_and_manufacturer
ConvertCsvRecord(record, device_model_name, manufacturer) ==
    LET mppt == parse_optional_int_from_string(record.mppt)
        input == parse_optional_int_from_string(record.input)
    IN  IF ~mppt.ok THEN mppt
        ELSE IF ~input.ok THEN input
        ELSE Ok([device_brand |-> manufacturer,
                 device_model |-> device_model_name,
                 ava_type |-> TrimText(record.ava_type),
                 mppt |-> mppt.value, input |-> input.value,
                 data_label |-> TrimText(record.data_label),
                 address |-> record.address, size |-> record.size,
                 modbus_type |-> TrimText(record.modbus_type),
                 divider |-> record.divider,
                 register_type |-> TrimText(record.register_type)])

\* parse_csv_with_device_model_and_manufacturer: the first row that fails to
\* convert fails the file.
RECURSIVE ParseCsvFrom(_, _, _, _, _)
ParseCsvFrom(rows, device_model_name, manufacturer, i, acc) ==
    IF i > Len(rows) THEN Ok(acc)
    ELSE LET r == ConvertCsvRecord(rows[i], device_model_name, manufacturer) IN
         IF ~r.ok THEN r
         ELSE ParseCsvFrom(rows, device_model_name, manufacturer, i + 1,
                           Append(acc, r.value))

\* UNIQUE(device_brand, device_model, address, mppt, input): a NULL never
\* equals a NULL.
SameUniqueKey(a, b) ==
    /\ a.device_brand = b.device_brand
    /\ a.device_model = b.device_model
    /\ a.address = b.address
    /\ a.mppt # <<>> /\ a.mppt = b.mppt
    /\ a.input # <<>> /\ a.input = b.input

\* bulk_insert_modbus_tcp_tag_registers: INSERT OR REPLACE row by row, each
\* insert deleting the rows it conflicts with and adding one row under a
\* fresh id. Rows are kept without id, created_at and updated_at, so the
\* table is a bag: rows differing in these three columns only are copies.
RECURSIVE BulkInsertFrom(_, _, _)
BulkInsertFrom(table, tag_registers, i) ==
    IF i > Len(tag_registers) THEN table
    ELSE LET kept == {row \in BagToSet(table) :
                         ~SameUniqueKey(row, tag_registers[i])}
         IN  BulkInsertFrom(
                [row \in kept |-> table[row]] (+) SetToBag({tag_registers[i]}),
                tag_registers, i + 1)

\* Rows of one uploaded file.
MaxCsvRows == 2
\* Rows kept in modbus_tcp_tag_registers.
MaxStoredRows == 2

CsvRows ==
    {CsvModbusTcpTagRecord(a, m, i, ts[1], ts[2]) :
        a \in {"Inverter", "String", " String"},
        m \in {<<>>, <<"1">>, <<"2", "1">>, <<" ", "1">>, <<"x">>},
        i \in {<<>>, <<"1">>},
        ts \in {<<1, "U16">>, <<2, "U16">>, <<2, "F32">>}}

LeadingCsvRows ==
    {CsvModbusTcpTagRecord("Inverter", <<>>, <<>>, 1, "U16"),
     CsvModbusTcpTagRecord("String", <<"1">>, <<"1">>, 2, "F32")}

CsvFiles ==
    {<<>>} \cup
    UNION {{Append(p, r) : p \in [1..(n - 1) -> LeadingCsvRows],
                           r \in CsvRows} : n \in 1..MaxCsvRows}

\* What reaches the handler besides the rows: a complete form, or one with
\* the file, the model name, the manufacturer or a header missing.
UploadForms ==
    {"complete", "no csv_file", "no device_model_name", "no manufacturer",
     "missing header"}

Response(success, records_processed) ==
    [success |-> success, records_processed |-> records_processed]

\* upload_modbus_tcp_csv_tags
UploadModbusTcpCsvTags ==
    \E form \in UploadForms :
    \E rows \in IF form = "complete" THEN CsvFiles ELSE {<<>>} :
    \E db_ok \in IF rows = <<>> THEN {TRUE} ELSE BOOLEAN :
        LET parsed == ParseCsvFrom(rows, "m1", "acme", 1, <<>>)
            stored == BulkInsertFrom(modbus_tcp_tag_registers, parsed.value, 1)
            accepted == /\ form = "complete"
                        /\ parsed.ok
                        /\ parsed.value # <<>>
                        /\ validate_record_data(parsed.value).ok
        IN  /\ accepted /\ db_ok => BagCardinality(stored) <= MaxStoredRows
            /\ modbus_tcp_tag_registers' =
                  IF accepted /\ db_ok THEN stored
                  ELSE modbus_tcp_tag_registers
            /\ op' = [name |-> "upload_modbus_tcp_csv_tags",
                      ret |-> IF accepted /\ db_ok
                              THEN Response(TRUE, Len(parsed.value))
                              ELSE Response(FALSE, 0)]
            /\ UNCHANGED <<txVars, tbVars, iecVars, log_entries, log_seq, modbus, storeVars,
                           supVars>>

NextCsv == UploadModbusTcpCsvTags

SpecCsv == InitLog /\ [][NextCsv]_vars

\* C19: after any sequence of CSV uploads every stored row with ava_type
\* Inverter has neither mppt nor input, and every row with ava_type String
\* has both, with 1 <= mppt <= 20 and 1 <= input <= 50, whatever the row's
\* modbus_type.
C19_StoredRowsKeepMpptInputRule ==
    \A row \in BagToSet(modbus_tcp_tag_registers) :
        /\ row.ava_type = "Inverter" => row.mppt = <<>> /\ row.input = <<>>
        /\ row.ava_type = "String"
           => /\ row.mppt # <<>> /\ row.input # <<>>
              /\ row.mppt[1] >= 1 /\ row.mppt[1] <= 20
              /\ row.input[1] >= 1 /\ row.input[1] <= 50

\* C21: validate_record_data rejects every record whose divider is <= 0 and
\* every record whose address lies outside 0..65535, for every ava_type and
\* every modbus_type, and accepts an otherwise valid record with address 0 or
\* 65535.
C21_DividerAndAddressChecked ==
    op.name = "validate_record_data"
    => /\ op.ret.ok
          => \A i \in DOMAIN op.records :
                /\ op.records[i].divider > 0
                /\ op.records[i].address >= 0
                /\ op.records[i].address <= 65535
       /\ (\E a \in {0, 65535} :
              op.records =
                 <<[CreateModbusTcpTagRegister("Inverter", <<>>, <<>>, 1, "U16")
                       EXCEPT !.address = a]>>)
          => op.ret.ok

\* ------------------------------------------------- devices with their tags
\* The REST adapters create_device_with_tags and update_device_with_tags over
\* the devices and device_tags tables.  A tag of the request body keeps the
\* fields the tables store and the scheduler reads.
MaxRequestTags == 2

CreateTagRequest(name, size, data_type) ==
    [name |-> name, size |-> size, data_type |-> data_type, enabled |-> TRUE,
     schedule_group_id |-> None]

\* Tag lists a request body can carry: size is any i32, data_type any string.
TagRequests ==
    {CreateTagRequest("t1", s, t) :
        s \in {0, 1, 2, 3, 4}, t \in {"uint16", "uint32", "float32"}}

TagRequestLists ==
    UNION {[1..n -> TagRequests] : n \in 0..MaxRequestTags}

\* The handlers' map from request tags to DeviceTag rows: every field copied.
RequestDeviceTags(device_id, request_tags) ==
    [i \in DOMAIN request_tags |->
        [device_id |-> device_id, name |-> request_tags[i].name,
         size |-> request_tags[i].size,
         data_type |-> request_tags[i].data_type,
         enabled |-> request_tags[i].enabled,
         schedule_group_id |-> request_tags[i].schedule_group_id]]

\* create_device_tags: one INSERT per tag outside any transaction, so a
\* failure at tag `inserted + 1` leaves the rows before it.
create_device_tags(rows, tags, inserted) == rows \o SubSeq(tags, 1, inserted)

InitTags ==
    /\ log_entries = {}
    /\ log_seq = 0
    /\ op = [name |-> "new"]
    /\ modbus = None
    /\ NoSupervisor

\* create_device_with_tags: create_device (the id is the primary key), then
\* create_device_tags; either failure answers 500.
CreateDeviceWithTags ==
    \E d \in DeviceIds, request_tags \in TagRequestLists,
       device_ok \in BOOLEAN, inserted \in 0..MaxRequestTags :
       /\ inserted <= Len(request_tags)
       /\ ~device_ok => inserted = 0
       /\ LET created == device_ok /\ devices[d] = <<>>
              tags == RequestDeviceTags(d, request_tags)
          IN  /\ devices' =
                    IF created
                    THEN [devices EXCEPT ![d] =
                             <<[enabled |-> TRUE, retry_count |-> 0,
                                protocol |-> "modbus_tcp"]>>]
                    ELSE devices
              /\ device_tags' =
                    IF created
                    THEN [device_tags EXCEPT
                             ![d] = create_device_tags(@, tags, inserted)]
                    ELSE device_tags
              /\ op' = [name |-> "create_device_with_tags",
                        ret |-> IF created /\ inserted = Len(request_tags)
                                THEN Ok("Device created successfully")
                                ELSE Err("500")]
       /\ UNCHANGED <<txVars, tbVars, csvVars, iecVars, log_entries, log_seq, modbus,
                      schedule_groups, device_status, supVars>>

\* update_device_with_tags: get_device, update_device, delete_device_tags,
\* create_device_tags, each able to fail; `step` is the number of store calls
\* that succeeded before the failing one (4 when none fails).
UpdateDeviceWithTags ==
    \E d \in DeviceIds, request_tags \in TagRequestLists,
       step \in 0..4, inserted \in 0..MaxRequestTags :
       /\ inserted <= Len(request_tags)
       /\ step < 3 => inserted = 0
       /\ step = 4 <=> (step >= 3 /\ inserted = Len(request_tags))
       /\ LET found == step >= 1 /\ devices[d] # <<>>
              tags == RequestDeviceTags(d, request_tags)
          IN  /\ device_tags' =
                    IF found /\ step >= 3
                    THEN [device_tags EXCEPT
                             ![d] = create_device_tags(<<>>, tags, inserted)]
                    ELSE device_tags
              /\ op' = [name |-> "update_device_with_tags",
                        ret |-> IF step = 0 THEN Err("500")
                                ELSE IF ~found THEN Err("Device not found")
                                ELSE IF step = 4
                                     THEN Ok("Device updated successfully")
                                     ELSE Err("500")]
       /\ UNCHANGED <<txVars, tbVars, csvVars, iecVars, log_entries, log_seq, modbus, devices,
                      schedule_groups, device_status, supVars>>

NextTags == CreateDeviceWithTags \/ UpdateDeviceWithTags

SpecTags == InitTags /\ [][NextTags]_vars

\* The size a textual data type occupies, in registers.
DataTypeSize(data_type) ==
    CASE data_type \in {"uint16", "int16"} -> 1
      [] data_type \in {"uint32", "int32", "float32"} -> 2
      [] OTHER -> 4

\* C22: after any sequence of device create and update operations through the
\* store and the REST adapters, every stored DeviceTag row has a size in
\* {1, 2, 4} and that size agrees with the row's data_type.
C22_StoredTagSizeAgreesWithType ==
    \A d \in DeviceIds : \A i \in DOMAIN device_tags[d] :
        /\ device_tags[d][i].size \in {1, 2, 4}
        /\ device_tags[d][i].size = DataTypeSize(device_tags[d][i].data_type)

\* The claimed key of a stored row: an absent mppt or input is a value.
UniqueKey(row) ==
    <<row.device_brand, row.device_model, row.address, row.mppt, row.input>>

\* C23: after any sequence of bulk_insert_modbus_tcp_tag_registers calls no
\* two stored rows agree on (device_brand, device_model, address, mppt,
\* input), an absent mppt or input counting as a value of the tuple: a
\* conflicting row replaces the stored one, so the same rows uploaded twice
\* leave the rows of one upload.
C23_StoredRowsHaveDistinctKeys ==
    /\ \A row \in BagToSet(modbus_tcp_tag_registers) :
          CopiesIn(row, modbus_tcp_tag_registers) = 1
    /\ \A r1, r2 \in BagToSet(modbus_tcp_tag_registers) :
          UniqueKey(r1) = UniqueKey(r2) => r1 = r2

\* ------------------------------------------------------ device AVA type
\* get_device_ava_type: devices JOIN device_models JOIN
\* modbus_tcp_tag_registers, the distinct ava_types ordered by the CASE rank,
\* LIMIT 1.
MaxCatalogRows == 2

DeviceModel(id, name) == [id |-> id, name |-> name]

\* The CASE with Meter ranked before PowerMeter.
AvaTypeRankMeterFirst(ava_type) ==
    CASE ava_type = "Inverter" -> 1
      [] ava_type = "Weather Station" -> 2
      [] ava_type = "Meter" -> 3
      [] ava_type = "PowerMeter" -> 4
      [] ava_type = "MPPT" -> 5
      [] ava_type = "String" -> 6
      [] OTHER -> 7

\* The CASE of the ORDER BY clause.
AvaTypeRank(ava_type) ==
    CASE ava_type = "Inverter" -> 1
      [] ava_type = "Weather Station" -> 2
      [] ava_type = "PowerMeter" -> 3
      [] ava_type = "Meter" -> 4
      [] ava_type = "MPPT" -> 5
      [] ava_type = "String" -> 6
      [] OTHER -> 7

\* SELECT DISTINCT mtr.ava_type ... WHERE d.id = ?1: the ava_types of the rows
\* joined to the device through its model's name.
JoinedAvaTypes(device_id) ==
    {row.ava_type :
        row \in {r \in BagToSet(modbus_tcp_tag_registers) :
                   /\ devices[device_id] # <<>>
                   /\ \E dm \in device_models :
                         /\ devices[device_id][1].model_id = <<dm.id>>
                         /\ dm.name = r.device_model}}

\* ORDER BY rank LIMIT 1: the rows of the lowest rank; SQL leaves the order
\* among rows of equal rank open.
FirstRanked(ava_types) ==
    {t \in ava_types :
        \A u \in ava_types : AvaTypeRank(t) <= AvaTypeRank(u)}

AvaCatalog ==
    {[CreateModbusTcpTagRegister(a, <<>>, <<>>, 1, "U16")
         EXCEPT !.device_model = m] :
        a \in valid_ava_types, m \in {"m1", "m2"}}

InitAva ==
    /\ log_entries = {}
    /\ log_seq = 0
    /\ op = [name |-> "new"]
    /\ modbus = None
    /\ device_tags = [d \in DeviceIds |-> <<>>]
    /\ schedule_groups = {}
    /\ device_status = [d \in DeviceIds |-> NoStatus]
    /\ device_tasks = [d \in DeviceIds |-> {}]
    /\ device_clients = [d \in DeviceIds |-> <<>>]
    /\ clients_lock = 0
    /\ tasks = [t \in TaskIds |-> NoTask]
    /\ calls = [c \in CallerIds |-> IdleCall]
    /\ iec104 = None
    /\ wire = None
    /\ thingsboard = None
    /\ plant_config = None
    /\ tag_templates = EmptyBag
    /\ connection = None
    /\ \E model_id \in {<<>>, <<"model-1">>, <<"model-3">>} :
          devices \in {[d \in DeviceIds |-> <<>>],
                       [d \in DeviceIds |-> <<[model_id |-> model_id]>>]}
    /\ device_models \in
          {{}, {DeviceModel("model-1", "m1"), DeviceModel("model-2", "m2")}}
    /\ \E rows \in SUBSET AvaCatalog :
          /\ Cardinality(rows) <= MaxCatalogRows
          /\ modbus_tcp_tag_registers = SetToBag(rows)

GetDeviceAvaType ==
    \E device_id \in DeviceIds, db_ok \in BOOLEAN :
        LET first == FirstRanked(JoinedAvaTypes(device_id))
        IN  /\ \E ret \in IF ~db_ok THEN {Err("db")}
                          ELSE IF first = {} THEN {Ok(<<>>)}
                          ELSE {Ok(<<t>>) : t \in first} :
                  op' = [name |-> "get_device_ava_type",
                         device_id |-> device_id, ret |-> ret]
            /\ UNCHANGED <<txVars, tbVars, csvVars, iecVars, log_entries, log_seq,
                           modbus, storeVars, supVars>>

NextAva == GetDeviceAvaType

SpecAva == InitAva /\ [][NextAva]_vars

\* The claimed order, best first; every other type comes after these.
AvaTypeOrder ==
    <<"Inverter", "Weather Station", "PowerMeter", "Meter", "MPPT", "String">>

Precedes(t, u) ==
    \E i \in DOMAIN AvaTypeOrder :
        /\ AvaTypeOrder[i] = t
        /\ \A j \in 1..i : AvaTypeOrder[j] # u

\* The ava_types of the catalog rows whose device_model is the name of the
\* device's model.
MatchingAvaTypes(device_id) ==
    {r.ava_type :
        r \in {q \in BagToSet(modbus_tcp_tag_registers) :
                 \E dm \in device_models :
                    /\ devices[device_id] # <<>>
                    /\ <<dm.id>> = devices[device_id][1].model_id
                    /\ q.device_model = dm.name}}

Chars(s) == [i \in 1..Len(s) |-> SubSeq(s, i, i)]

starts_with(s, prefix) ==
    Len(s) >= Len(prefix) /\ SubSeq(s, 1, Len(prefix)) = prefix

\* str::strip_prefix: Some(rest) as <<rest>>, None as <<>>.
strip_prefix(s, prefix) ==
    IF starts_with(s, prefix)
    THEN <<SubSeq(s, Len(prefix) + 1, Len(s))>> ELSE <<>>

\* str::split(sep).collect(): the pieces between the occurrences of sep.
RECURSIVE SplitFrom(_, _, _, _)
SplitFrom(s, sep, start, i) ==
    IF i + Len(sep) - 1 > Len(s) THEN <<SubSeq(s, start, Len(s))>>
    ELSE IF SubSeq(s, i, i + Len(sep) - 1) = sep
         THEN <<SubSeq(s, start, i - 1)>>
                 \o SplitFrom(s, sep, i + Len(sep), i + Len(sep))
         ELSE SplitFrom(s, sep, start, i + 1)

split(s, sep) == SplitFrom(s, sep, 1, 1)

\* str::split_whitespace().next(): the first run of non-blank characters.
first_word(s) ==
    LET words == SelectSeq(split(s, " "), LAMBDA w : w # "")
    IN  IF words = <<>> THEN <<>> ELSE <<words[1]>>

\* str::parse::<u32>() on texts of at most nine digits.
ParseU32(s) ==
    LET r == ParseI32(Chars(s))
    IN  IF r.ok /\ r.value >= 0 /\ ~starts_with(s, "-") THEN r
        ELSE Err("invalid digit found in string")

\* format!("{:02}", n)
Pad2(n) == IF n < 10 THEN "0" \o ToString(n) ELSE ToString(n)

UnknownDevice == [kind |-> "Unknown", mppt |-> 0, input |-> 0]

\* parse_device_description: the DeviceType of a tag description.
parse_device_description(description) ==
    LET words == split(description, " ")
        parts == split(description, " - ")
        mppt == IF Len(parts) >= 3 THEN strip_prefix(parts[2], "MPPT ")
                ELSE <<>>
        input == IF Len(parts) >= 3 THEN strip_prefix(parts[3], "Input ")
                 ELSE <<>>
        input_num_str == IF input = <<>> \/ first_word(input[1]) = <<>>
                         THEN "0" ELSE first_word(input[1])[1]
    IN  IF starts_with(description, "Inverter")
        THEN [kind |-> "Inverter", mppt |-> 0, input |-> 0]
        ELSE IF /\ starts_with(description, "MPPT - MPPT ")
                /\ Len(words) >= 4
                /\ ParseU32(words[4]).ok
        THEN [kind |-> "Mppt", mppt |-> ParseU32(words[4]).value, input |-> 0]
        ELSE IF /\ starts_with(description, "String - MPPT ")
                /\ mppt # <<>> /\ ParseU32(mppt[1]).ok
                /\ input # <<>> /\ ParseU32(input_num_str).ok
        THEN [kind |-> "String", mppt |-> ParseU32(mppt[1]).value,
              input |-> ParseU32(input_num_str).value]
        ELSE UnknownDevice

\* extract_group_prefix: the first two dash-separated parts of the group name.
extract_group_prefix(entity_group_name) ==
    LET parts == split(entity_group_name, "-")
    IN  IF Len(parts) >= 2 THEN parts[1] \o "-" \o parts[2]
        ELSE entity_group_name

\* sort_by_key: the pairs of a finite set in ascending (first, second) order.
PairLess(a, b) == a[1] < b[1] \/ (a[1] = b[1] /\ a[2] < b[2])

RECURSIVE SortedPairs(_)
SortedPairs(S) ==
    IF S = {} THEN <<>>
    ELSE LET least == CHOOSE x \in S : \A y \in S \ {x} : PairLess(x, y)
         IN  <<least>> \o SortedPairs(S \ {least})

DeviceTypes(tags) ==
    {parse_device_description(tags[i].description[1]) :
        i \in {j \in DOMAIN tags : tags[j].description # <<>>}}

\* analyze_device_hierarchy: the inverter's name, one MpptInfo per key of
\* mppt_groups sorted by mppt_number, one StringInfo per key of string_groups
\* sorted by (mppt_number, input_number).
analyze_device_hierarchy(tags, entity_group_name, inverter_index) ==
    LET inverter_name == extract_group_prefix(entity_group_name) \o "-I"
                            \o Pad2(inverter_index)
        mppt_groups == {t.mppt : t \in {u \in DeviceTypes(tags) :
                                           u.kind = "Mppt"}}
        string_groups == {<<t.mppt, t.input>> :
                             t \in {u \in DeviceTypes(tags) :
                                      u.kind = "String"}}
        mppt_keys == SortedPairs({<<n, 0>> : n \in mppt_groups})
        mppt_numbers == [i \in DOMAIN mppt_keys |-> mppt_keys[i][1]]
        string_keys == SortedPairs(string_groups)
    IN  [inverter |-> [name |-> inverter_name],
         mppets |-> [i \in DOMAIN mppt_numbers |->
                       [name |-> inverter_name \o "-M" \o Pad2(mppt_numbers[i]),
                        mppt_number |-> mppt_numbers[i]]],
         strings |-> [i \in DOMAIN string_keys |->
                        [mppt_number |-> string_keys[i][1],
                         input_number |-> string_keys[i][2],
                         parent_mppt |-> inverter_name \o "-M"
                                            \o Pad2(string_keys[i][1])]]]

\* The upstream's answer to POST /api/device as create_device returns it: a
\* name is taken once per tenant; any request can also fail otherwise.
\* `answer` is "ok" (the upstream serves the request) or "error".
TbCreateDevice(tb, name, device_type, answer) ==
    IF answer = "error" THEN [tb |-> tb, ret |-> Err("error")]
    ELSE IF \E dev \in tb.devices : dev.name = name
    THEN [tb |-> tb, ret |-> Err("already exists")]
    ELSE [tb |-> [tb EXCEPT !.devices =
                     @ \cup {[name |-> name, device_type |-> device_type]}],
          ret |-> Ok(name)]

\* create_mppt_and_string_devices, step 1: one Mppt device per MpptInfo; an
\* `already exists` answer is tracked as a placeholder, any other error skips
\* the child.
RECURSIVE CreateMppts(_, _, _, _)
CreateMppts(acc, hierarchy, answers, i) ==
    IF i > Len(hierarchy.mppets) THEN acc
    ELSE LET name == hierarchy.mppets[i].name
             r == TbCreateDevice(acc.tb, name, "Mppt", answers[i])
             tracked == r.ret.ok \/ r.ret.error = "already exists"
         IN  CreateMppts(
                [tb |-> r.tb,
                 created_devices |-> IF tracked
                                     THEN Append(acc.created_devices, name)
                                     ELSE acc.created_devices],
                hierarchy, answers, i + 1)

\* Step 2: one String device per StringInfo, named by global_pv_index, which
\* advances only past a tracked child.
RECURSIVE CreateStrings(_, _, _, _, _)
CreateStrings(acc, hierarchy, answers, i, global_pv_index) ==
    IF i > Len(hierarchy.strings) THEN acc
    ELSE LET string_name ==
                 hierarchy.inverter.name \o "-M"
                    \o Pad2(hierarchy.strings[i].mppt_number)
                    \o "-PV" \o Pad2(global_pv_index)
             r == TbCreateDevice(acc.tb, string_name, "String",
                                 answers[Len(hierarchy.mppets) + i])
             tracked == r.ret.ok \/ r.ret.error = "already exists"
         IN  CreateStrings(
                [tb |-> r.tb,
                 created_devices |-> IF tracked
                                     THEN Append(acc.created_devices,
                                                 string_name)
                                     ELSE acc.created_devices],
                hierarchy, answers, i + 1,
                IF tracked THEN global_pv_index + 1 ELSE global_pv_index)

create_mppt_and_string_devices(tb, hierarchy, answers) ==
    CreateStrings(
        CreateMppts([tb |-> tb, created_devices |-> <<>>], hierarchy,
                    answers, 1),
        hierarchy, answers, 1, 1)

\* Tags of one inverter; StringInfo.name, which nothing reads, is left out,
\* and every Input index is at least 1.
MaxHierarchyTags == 2

HierarchyTag(description) ==
    [name |-> "Udc", description |-> description, enabled |-> TRUE,
     schedule_group_id |-> None]

Descriptions ==
    {<<>>, <<"Inverter (SG150CX)">>, <<"MPPT - MPPT 1 (SG150CX)">>,
     <<"MPPT - MPPT 2 (SG150CX)">>,
     <<"String - MPPT 1 - Input 1 (SG150CX)">>,
     <<"String - MPPT 1 - Input 2 (SG150CX)">>,
     <<"String - MPPT 2 - Input 1 (SG150CX)">>,
     <<"String - MPPT x - Input 1">>}

\* The tag set of the example: two MPPTs, strings (1,1), (1,2) and (2,1).
ExampleTags ==
    <<HierarchyTag(<<"MPPT - MPPT 1 (SG150CX)">>),
      HierarchyTag(<<"MPPT - MPPT 2 (SG150CX)">>),
      HierarchyTag(<<"String - MPPT 1 - Input 1 (SG150CX)">>),
      HierarchyTag(<<"String - MPPT 1 - Input 2 (SG150CX)">>),
      HierarchyTag(<<"String - MPPT 2 - Input 1 (SG150CX)">>)>>

HierarchyTagLists ==
    {ExampleTags} \cup
    UNION {[1..n -> {HierarchyTag(d) : d \in Descriptions}] :
              n \in 0..MaxHierarchyTags}

EntityGroupName == "ACCV-P002-King Jade"

InitHierarchy ==
    /\ log_entries = {}
    /\ log_seq = 0
    /\ op = [name |-> "new"]
    /\ modbus = None
    /\ devices = [d \in DeviceIds |-> <<[model_id |-> <<>>]>>]
    /\ device_tags \in [DeviceIds -> HierarchyTagLists]
    /\ schedule_groups = {}
    /\ device_status = [d \in DeviceIds |-> NoStatus]
    /\ device_tasks = [d \in DeviceIds |-> {}]
    /\ device_clients = [d \in DeviceIds |-> <<>>]
    /\ clients_lock = 0
    /\ tasks = [t \in TaskIds |-> NoTask]
    /\ calls = [c \in CallerIds |-> IdleCall]
    /\ iec104 = None
    /\ wire = None
    /\ modbus_tcp_tag_registers = EmptyBag
    /\ device_models = {}
    /\ thingsboard = [devices |-> {}]
    /\ plant_config = None
    /\ tag_templates = EmptyBag
    /\ connection = None

\* The children of device d's hierarchy, each request answered or failed.
PublishHierarchy(d, runs, failure, hierarchy) ==
    \E answers \in IF runs
                   THEN [1..(Len(hierarchy.mppets) + Len(hierarchy.strings))
                            -> {"ok", "error"}]
                   ELSE {<<>>} :
       LET r == create_mppt_and_string_devices(thingsboard, hierarchy, answers)
       IN  /\ thingsboard' = IF runs THEN r.tb ELSE thingsboard
           /\ op' = [name |-> "sync_device_hierarchy_to_thingsboard",
                     device_id |-> d,
                     answers |-> answers,
                     ret |-> IF runs THEN Ok(r.created_devices)
                             ELSE Err(failure)]

\* sync_device_hierarchy_to_thingsboard: get_device_tags, the analysis, then
\* the children; the inverter itself is created by the caller.
SyncDeviceHierarchyToThingsboard ==
    /\ \E d \in DeviceIds, db_ok \in BOOLEAN :
          PublishHierarchy(
             d, db_ok /\ device_tags[d] # <<>>,
             IF db_ok THEN "No device tags found"
             ELSE "Failed to get device tags",
             analyze_device_hierarchy(device_tags[d], EntityGroupName, 1))
    /\ UNCHANGED <<txVars, device_models, plant_config, csvVars, iecVars, log_entries,
                   log_seq, modbus, storeVars, supVars>>

NextHierarchy == SyncDeviceHierarchyToThingsboard

SpecHierarchy == InitHierarchy /\ [][NextHierarchy]_vars

\* What the descriptions of a tag list name: the MPPT indices of both kinds
\* of description, and the (n, m) pairs of the String descriptions.
DescribedStrings(tags) ==
    {<<t.mppt, t.input>> :
        t \in {u \in DeviceTypes(tags) : u.kind = "String"}}

DescribedMppts(tags) ==
    {t.mppt : t \in {u \in DeviceTypes(tags) : u.kind \in {"Mppt", "String"}}}

\* The 1-based position of (n, m) among the described strings in (n, m) order.
StringNumber(tags, s) ==
    1 + Cardinality({q \in DescribedStrings(tags) :
                        q[1] < s[1] \/ (q[1] = s[1] /\ q[2] < s[2])})

ExpectedChildren(tags) ==
    {"ACCV-P002-I01-M" \o Pad2(n) : n \in DescribedMppts(tags)}
    \cup {"ACCV-P002-I01-M" \o Pad2(s[1]) \o "-PV"
             \o Pad2(StringNumber(tags, s)) : s \in DescribedStrings(tags)}

\* C25: the hierarchy sync_device_hierarchy_to_thingsboard publishes has one
\* MPPT child {inverter}-M{n:02} for every MPPT index n of an `MPPT - MPPT n`
\* or `String - MPPT n - Input m` description and one String child
\* {inverter}-M{n:02}-PV{g:02} per distinct (n, m), g numbering the strings
\* 1, 2, 3, ... in (n, m) order without resetting per MPPT, all names
\* pairwise distinct.
C25_ChildrenFollowDescriptions ==
    (/\ op.name = "sync_device_hierarchy_to_thingsboard"
     /\ op.ret.ok
     /\ \A i \in DOMAIN op.answers : op.answers[i] = "ok")
    => /\ {op.ret.value[i] : i \in DOMAIN op.ret.value}
             = ExpectedChildren(device_tags[op.device_id])
       /\ \A i, j \in DOMAIN op.ret.value :
             op.ret.value[i] = op.ret.value[j] => i = j

\* ------------------------------------------------- sync to the upstream
MaxUpstreamDevices == 3

\* The type a name's type-index part starts with and the length of its
\* abbreviation: PM, MT and WS before the one-letter prefixes.
TypePrefix(remaining) ==
    IF starts_with(remaining, "PM") /\ Len(remaining) >= 4
    THEN <<"PowerMeter", 2>>
    ELSE IF starts_with(remaining, "MT") /\ Len(remaining) >= 4
    THEN <<"Meter", 2>>
    ELSE IF starts_with(remaining, "WS") /\ Len(remaining) >= 4
    THEN <<"Weather Station", 2>>
    ELSE IF starts_with(remaining, "I") THEN <<"Inverter", 1>>
    ELSE IF starts_with(remaining, "S") THEN <<"String", 1>>
    ELSE IF starts_with(remaining, "P") THEN <<"PlantBlock", 1>>
    ELSE IF starts_with(remaining, "D") THEN <<"Device", 1>>
    ELSE <<>>

TypeAndIndex(device_type, index) ==
    IF index.ok THEN <<device_type, index.value>> ELSE <<>>

TypeIndexPart(kind, remaining) ==
    IF kind = <<>> THEN <<>>
    ELSE TypeAndIndex(kind[1],
                      ParseU32(SubSeq(remaining, kind[2] + 1, Len(remaining))))

StrippedName(stripped) ==
    IF stripped = <<>> THEN <<>>
    ELSE IF Len(stripped[1]) < 3 THEN <<>>
    ELSE TypeIndexPart(TypePrefix(stripped[1]), stripped[1])

\* parse_device_name_for_type_and_index: Some((type, index)) as <<type, index>>,
\* None as <<>>.
parse_device_name_for_type_and_index(device_name, entity_group_name) ==
    StrippedName(strip_prefix(device_name,
                              extract_group_prefix(entity_group_name) \o "-"))

\* The match of to_thingsboard_device_with_type on the device type.
TypeAbbreviation(device_type) ==
    CASE device_type = "Inverter" -> "I"
      [] device_type = "PowerMeter" -> "PM"
      [] device_type = "Meter" -> "MT"
      [] device_type = "Weather Station" -> "WS"
      [] device_type = "String" -> "S"
      [] device_type = "PlantBlock" -> "P"
      [] OTHER -> "D"

\* to_thingsboard_device_with_type: the request's name and type.
to_thingsboard_device_with_type(device_type, entity_group_name, device_index) ==
    [name |-> extract_group_prefix(entity_group_name) \o "-"
                 \o TypeAbbreviation(device_type) \o Pad2(device_index),
     device_type |-> device_type]

\* device_type_counters after the pass over the existing devices: the highest
\* parsed index per parsed type, 0 for a type no name parses to.
DeviceTypeCounter(existing_names, entity_group_name, device_type) ==
    LET indices ==
            {p[2] : p \in {q \in {parse_device_name_for_type_and_index(
                                      n, entity_group_name) :
                                      n \in existing_names} :
                              q # <<>> /\ q[1] = device_type}}
    IN  IF indices = {} THEN 0
        ELSE CHOOSE m \in indices : \A k \in indices : k <= m

\* get_device_ava_type as the handler uses it: the type, "Inverter" when the
\* lookup fails or finds nothing.
AvaTypeOrInverter(device_id, db_ok) ==
    LET first == FirstRanked(JoinedAvaTypes(device_id))
    IN  IF db_ok /\ first # {} THEN CHOOSE t \in first : TRUE ELSE "Inverter"

\* get_unsynced_devices: the devices without upstream id and group.
UnsyncedDevices ==
    {d \in DeviceIds :
        /\ devices[d] # <<>>
        /\ devices[d][1].tb_device_id = <<>>
        /\ devices[d][1].tb_group_id = <<>>}

EntityGroupId == "g1"

SyncResponse(success, created_count, failed_count, updated, requests,
             existing) ==
    [success |-> success, created_count |-> created_count,
     failed_count |-> failed_count, updated_device_ids |-> updated,
     requests |-> requests, existing |-> existing]

\* The end of the handler for device d: the write-back of the upstream id
\* (batch_update_devices_thingsboard_ids), the plant's sync timestamp and the
\* response. `origin` records which local device an upstream device was
\* created for. update_plant_sync_timestamp is called but not defined in the
\* sources; it is taken to store the group's name and id in the plant row.
SyncWriteBack(d, request, created_ok, tb, write_back, plant_ok, existing) ==
    /\ Cardinality(tb.devices) <= MaxUpstreamDevices
    /\ thingsboard' =
          [tb EXCEPT !.origin = IF created_ok
                                THEN @ \cup {<<d, request.name>>} ELSE @]
    /\ devices' =
          IF write_back = "ok"
          THEN [devices EXCEPT
                   ![d] = <<[@[1] EXCEPT
                              !.tb_device_id = <<"id-" \o request.name>>,
                              !.tb_group_id = <<EntityGroupId>>]>>]
          ELSE devices
    /\ plant_config' =
          IF plant_ok
          THEN [plant_name |-> EntityGroupName,
                thingsboard_entity_group_id |-> EntityGroupId]
          ELSE plant_config
    /\ op' = [name |-> "sync_devices_to_thingsboard",
              ret |-> SyncResponse(TRUE,
                                   IF created_ok THEN 1 ELSE 0,
                                   IF created_ok THEN 0 ELSE 1,
                                   IF write_back = "ok" THEN {d} ELSE {},
                                   <<[request EXCEPT !.created = created_ok]>>,
                                   existing)]

\* The children of an inverter that was created upstream, when it has tags.
SyncChildren(d, request, created, hierarchy, existing) ==
    \E answers \in IF /\ created.ret.ok
                      /\ request.device_type = "Inverter"
                      /\ device_tags[d] # <<>>
                   THEN [1..(Len(hierarchy.mppets) + Len(hierarchy.strings))
                            -> {"ok", "error"}]
                   ELSE {<<>>},
       write_back \in IF created.ret.ok THEN {"ok", "failed", "error"}
                      ELSE {"none"},
       plant_ok \in BOOLEAN :
       SyncWriteBack(d, request, created.ret.ok,
                     IF answers = <<>> THEN created.tb
                     ELSE create_mppt_and_string_devices(created.tb, hierarchy,
                                                         answers).tb,
                     write_back, plant_ok, existing)

\* The create request of device d under its index, and the upstream's answer.
SyncCreate(d, counted_type, request_type, device_index, list_ok, answer, existing) ==
    SyncChildren(
        d,
        [device_id |-> d, counted_type |-> counted_type,
         device_index |-> device_index,
         name |-> to_thingsboard_device_with_type(
                     request_type, EntityGroupName, device_index).name,
         device_type |-> request_type, listed |-> list_ok, created |-> FALSE],
        TbCreateDevice(thingsboard,
                       to_thingsboard_device_with_type(
                          request_type, EntityGroupName, device_index).name,
                       request_type, answer),
        analyze_device_hierarchy(device_tags[d], EntityGroupName, device_index),
        existing)

\* The loop body of sync_devices_to_thingsboard for device d (DeviceIds holds
\* one device): the counters from the group's devices, an empty list when
\* they cannot be fetched, and the two lookups of the device's AVA type.
SyncDevice(d) ==
    \E list_ok \in BOOLEAN, ava_ok \in BOOLEAN \X BOOLEAN,
       answer \in {"ok", "error"} :
       SyncCreate(d, AvaTypeOrInverter(d, ava_ok[1]),
                  AvaTypeOrInverter(d, ava_ok[2]),
                  DeviceTypeCounter(
                     IF list_ok THEN {dev.name : dev \in thingsboard.devices}
                     ELSE {},
                     EntityGroupName, AvaTypeOrInverter(d, ava_ok[1])) + 1,
                  list_ok, answer,
                  {dev.name : dev \in thingsboard.devices})

\* sync_devices_to_thingsboard
SyncDevicesToThingsboard ==
    /\ \E step \in {"get_unsynced_devices", "login", "get_all_entity_groups",
                    "devices"} :
          IF step = "devices" /\ UnsyncedDevices # {}
          THEN \E d \in UnsyncedDevices : SyncDevice(d)
          ELSE /\ op' = [name |-> "sync_devices_to_thingsboard",
                         ret |-> SyncResponse(
                                    step \in {"devices"}
                                       \/ (step # "get_unsynced_devices"
                                           /\ UnsyncedDevices = {}),
                                    0, 0, {}, <<>>,
                                    {dev.name : dev \in thingsboard.devices})]
               /\ UNCHANGED <<devices, thingsboard, plant_config>>
    /\ UNCHANGED <<txVars, device_models, csvVars, iecVars, log_entries, log_seq,
                   modbus, device_tags, schedule_groups, device_status,
                   supVars>>

\* One local device, not yet synced, of the AVA type its model's catalog rows
\* give; the upstream group holds devices of earlier runs or other gateways.
SyncAvaTypes == {"Inverter", "Meter", "Battery", "Plant"}

UpstreamDevice(name, device_type) == [name |-> name, device_type |-> device_type]

UpstreamGroups ==
    {{}, {UpstreamDevice("ACCV-P002-I02", "Inverter")},
     {UpstreamDevice("ACCV-P002-D01", "Battery")},
     {UpstreamDevice("ACCV-P002-MT01", "Meter")}}

InitSync ==
    /\ log_entries = {}
    /\ log_seq = 0
    /\ op = [name |-> "new"]
    /\ modbus = None
    /\ devices = [d \in DeviceIds |->
                    <<[model_id |-> <<"model-1">>, tb_device_id |-> <<>>,
                       tb_group_id |-> <<>>]>>]
    /\ device_tags \in
          [DeviceIds -> {<<>>, <<HierarchyTag(<<"MPPT - MPPT 1 (SG150CX)">>)>>}]
    /\ schedule_groups = {}
    /\ device_status = [d \in DeviceIds |-> NoStatus]
    /\ device_tasks = [d \in DeviceIds |-> {}]
    /\ device_clients = [d \in DeviceIds |-> <<>>]
    /\ clients_lock = 0
    /\ tasks = [t \in TaskIds |-> NoTask]
    /\ calls = [c \in CallerIds |-> IdleCall]
    /\ iec104 = None
    /\ wire = None
    /\ device_models = {DeviceModel("model-1", "m1")}
    /\ \E rows \in {{}} \cup
                   {{CreateModbusTcpTagRegister(a, <<>>, <<>>, 1, "U16")} :
                       a \in SyncAvaTypes} :
          modbus_tcp_tag_registers = SetToBag(rows)
    /\ \E group \in UpstreamGroups :
          thingsboard = [devices |-> group, origin |-> {}]
    /\ plant_config = None
    /\ tag_templates = EmptyBag
    /\ connection = None

NextSync == SyncDevicesToThingsboard

SpecSync == InitSync /\ [][NextSync]_vars

\* C26: running sync_devices_to_thingsboard twice against the same upstream
\* group creates no duplicate upstream entity, whatever the outcome of the
\* first run's write-back of the upstream ids to the local store: no local
\* device has two upstream devices created for it.
C26_NoDuplicateUpstreamEntity ==
    \A p, q \in thingsboard.origin : p[1] = q[1] => p[2] = q[2]

\* The naming rule: the name of the n-th device of a type in the group.
GeneratedName(device_type, n) ==
    "ACCV-P002-" \o TypeAbbreviation(device_type) \o Pad2(n)

\* The highest index an existing upstream name of the type carries, 0 if none.
MaxExistingIndex(existing, device_type) ==
    LET indices == {n \in 1..(MaxUpstreamDevices + 1) :
                       GeneratedName(device_type, n) \in existing}
    IN  IF indices = {} THEN 0
        ELSE CHOOSE m \in indices : \A k \in indices : k <= m

\* C27: for every device type the generated name carries the index
\* max existing upstream index of that type + 1 and never equals an existing
\* name, and parse_device_name_for_type_and_index is the inverse of the
\* naming rule for every AVA type, those with prefix D included.
C27_NamesContinueExistingIndices ==
    (op.name = "sync_devices_to_thingsboard")
    => \A i \in DOMAIN op.ret.requests :
          LET r == op.ret.requests[i]
          IN  (r.listed /\ r.counted_type = r.device_type)
              => /\ r.name \notin op.ret.existing
                 /\ r.device_index
                       = MaxExistingIndex(op.ret.existing, r.counted_type) + 1
                 /\ parse_device_name_for_type_and_index(r.name,
                                                         EntityGroupName)
                       = <<r.counted_type, r.device_index>>

\* ------------------------------------------------ reads of a silent device
\* The polling loop with the read as two steps: the request is issued and
\* the loop awaits the read; the read returns. The peer either answers (data,
\* an exception or a transport error) or stays silent for good.
\* read_specific_tags of the Modbus client awaits the tokio-modbus call with
\* no timeout around it; read_tags of the IEC 104 client wraps every
\* receive_frame in a 1000 ms timeout.
ReadIssue(t) ==
    /\ tasks[t].pc = "poll"
    /\ \E peer \in {"reading", "reading_silent"} :
          tasks' = [tasks EXCEPT ![t].pc = peer]
    /\ UNCHANGED <<txVars, tbVars, csvVars, iecVars, logVars, storeVars, device_tasks,
                   device_clients, clients_lock, calls>>

\* What an awaited read can return: anything but silence from a peer that
\* answers; from a silent peer the timeout's outcome, where there is one.
AwaitedOutcomes(task) ==
    IF task.client[1].kind = "Modbus"
    THEN IF task.pc = "reading" \/ task.client[1].inner.tcp_client = None
         THEN ReadOutcomes(task) ELSE {}
    ELSE {[ret |-> Iec104Client_read_specific_tags(task.client[1].inner,
                                                   outcome, 0),
           answered |-> task.client[1].inner.stream # None
                        /\ outcome = "answered"] :
             outcome \in IF task.pc = "reading"
                         THEN {"send_failed", "answered"} ELSE {"silent"}}

ReadReturn(t) ==
    /\ tasks[t].pc \in {"reading", "reading_silent"}
    /\ \E r \in AwaitedOutcomes(tasks[t]) : PollResult(t, r)
    /\ UNCHANGED <<txVars, tbVars, csvVars, iecVars, logVars, storeVars, device_tasks,
                   device_clients, clients_lock, calls>>

\* The steps of task t that the runtime takes whenever they are possible.
LoopStep(t) ==
    \/ TakeClient(t)
    \/ \E reachable \in BOOLEAN : Connect(t, reachable)
    \/ WriteConnected(t)
    \/ WriteError(t)
    \/ PutBack(t)
    \/ Backoff(t)
    \/ ReadIssue(t)
    \/ ReadReturn(t)
    \/ WriteReading(t)

NextSilent ==
    \/ \E d \in DeviceIds : StartDevice(1, d)
    \/ StartDevice_StopTasks(1)
    \/ StopDevice_Client(1)
    \/ StopDevice_Status(1)
    \/ StartDevice_GetTags(1)
    \/ StartDevice_Spawn(1)
    \/ StartDevice_InsertTasks(1)
    \/ StartDevice_Status(1)
    \/ Return(1)
    \/ \E t \in TaskIds : LoopStep(t)

\* SpecSilent: the device is started; every loop that can step does step.
SpecSilent ==
    /\ Init
    /\ [][NextSilent]_vars
    /\ \A t \in TaskIds : WF_vars(LoopStep(t))

AwaitsRead(t) == tasks[t].pc \in {"reading", "reading_silent"}

\* C28: every protocol read issued by a polling loop eventually returns, even
\* if the device never answers: a silent device cannot block its loop forever.
C28_EveryReadReturns ==
    \A t \in TaskIds : AwaitsRead(t) ~> ~AwaitsRead(t)

\* ------------------------------------------------- locks and blocked devices
\* Loop t is inside a protocol call: connect() or a read that was issued.
AwaitsProtocol(t) == tasks[t].pc \in {"connect", "reading", "reading_silent"}

LoopGuards == {LoopGuard(t) : t \in TaskIds}

ScheduleGroupTables ==
    {{ScheduleGroupRow(g, enabled[g]) : g \in present} :
        present \in SUBSET GroupIds, enabled \in [GroupIds -> BOOLEAN]}

\* The device's two tags: each enabled or not, in a group of the table or none.
GroupedTagRows(groups) ==
    {<<DeviceTag("t1", "uint16", 1, 0, e1, g1),
       DeviceTag("t2", "int16", 2, 1, e2, g2)>> :
        e1 \in BOOLEAN, e2 \in BOOLEAN,
        g1 \in {None} \cup {g.id : g \in groups},
        g2 \in {None} \cup {g.id : g \in groups}}

InitGroups ==
    /\ log_entries = {}
    /\ log_seq = 0
    /\ op = [name |-> "new"]
    /\ modbus = None
    /\ devices = [d \in DeviceIds |->
                     <<[enabled |-> TRUE, retry_count |-> 1, protocol |-> "modbus_tcp"]>>]
    /\ schedule_groups \in ScheduleGroupTables
    /\ device_tags \in [DeviceIds -> GroupedTagRows(schedule_groups)]
    /\ device_status = [d \in DeviceIds |-> NoStatus]
    /\ device_tasks = [d \in DeviceIds |-> {}]
    /\ device_clients = [d \in DeviceIds |-> <<>>]
    /\ clients_lock = 0
    /\ tasks = [t \in TaskIds |-> NoTask]
    /\ calls = [c \in CallerIds |-> IdleCall]
    /\ iec104 = None
    /\ wire = None
    /\ modbus_tcp_tag_registers = EmptyBag
    /\ device_models = {}
    /\ thingsboard = None
    /\ plant_config = None
    /\ tag_templates = EmptyBag
    /\ connection = None

NextGroups ==
    \/ \E d \in DeviceIds : StartDevice(1, d)
    \/ StartDevice_StopTasks(1)
    \/ StopDevice_Client(1)
    \/ StopDevice_Status(1)
    \/ StartDevice_GetTags(1)
    \/ StartDevice_Spawn(1)
    \/ StartDevice_InsertTasks(1)
    \/ StartDevice_Status(1)
    \/ Return(1)

\* SpecGroups: the device is started, again and again, under every table of
\* schedule groups and every pair of tags.
SpecGroups == InitGroups /\ [][NextGroups]_vars

\* start_device is past its spawning, by either way out of it.
Spawned(c) ==
    /\ calls[c].op = "start_device"
    /\ \/ calls[c].pc \in {"insert_tasks", "status_starting"}
       \/ calls[c].pc = "returned" /\ calls[c].ret = "Ok" /\ calls[c].enabled

GroupOfTag(tag) ==
    IF tag.schedule_group_id = None THEN "medium_freq" ELSE tag.schedule_group_id

Assignable(tag) ==
    /\ tag.enabled
    /\ \E g \in schedule_groups : g.id = GroupOfTag(tag) /\ g.enabled

LoopsHolding(loops, tag) ==
    {t \in loops : \E i \in 1..Len(tasks[t].tags) : tasks[t].tags[i] = tag}

\* C30: of the loops start_device spawned, every enabled tag whose group
\* (its own, or medium_freq when it has none) exists and is enabled is in
\* exactly one, the loop of that group, and once; every other tag is in none;
\* no two loops share a group, every group with an assigned tag has its loop,
\* and no loop has an empty tag list.
C30_TagsAssignedToOneLoop ==
    \A c \in CallerIds :
        Spawned(c) =>
            LET loops == calls[c].spawned
                tags_in == device_tags[calls[c].device_id]
            IN  /\ \A i \in 1..Len(tags_in) :
                      IF Assignable(tags_in[i])
                      THEN \E t \in loops :
                              /\ LoopsHolding(loops, tags_in[i]) = {t}
                              /\ tasks[t].group = GroupOfTag(tags_in[i])
                              /\ Cardinality({k \in 1..Len(tasks[t].tags) :
                                                tasks[t].tags[k] = tags_in[i]}) = 1
                      ELSE LoopsHolding(loops, tags_in[i]) = {}
                /\ \A t, u \in loops : tasks[t].group = tasks[u].group => t = u
                /\ \A t \in loops :
                      /\ tasks[t].tags # <<>>
                      /\ \A k \in 1..Len(tasks[t].tags) :
                            \E i \in 1..Len(tags_in) : tasks[t].tags[k] = tags_in[i]

\* start_device spawned one loop for a device with a tag that is assigned
\* and a tag that is left out.
C30_Witness ==
    /\ calls[1].op = "start_device"
    /\ calls[1].pc = "insert_tasks"
    /\ Cardinality(calls[1].spawned) = 1
    /\ \E i, j \in 1..Len(device_tags[calls[1].device_id]) :
          /\ Assignable(device_tags[calls[1].device_id][i])
          /\ ~Assignable(device_tags[calls[1].device_id][j])

\* -------------------------------------------------- abort of a running task
\* JoinHandle::abort returns at once: a task parked at an await is dropped
\* there, a task that a worker thread is polling runs on to the next await
\* that has to wait.  These are the positions inside one poll: the call
\* before them has returned and the next needs only a free mutex.
MidPoll(task) ==
    task.pc \in {"status_connected", "status_error", "status_reading", "put_back"}

AbortHandles(handles, running) ==
    [t \in TaskIds |->
        IF t \notin handles THEN tasks[t]
        ELSE IF t \in running THEN [tasks[t] EXCEPT !.cancelled = TRUE]
        ELSE NoTask]

\* stop_device: device_tasks.write().remove(device_id), abort every task;
\* any of the tasks that are inside a poll may be running on another worker.
RemoveAndAbortRunning(c, d) ==
    /\ device_tasks' = [device_tasks EXCEPT ![d] = {}]
    /\ \E running \in SUBSET {t \in device_tasks[d] :
                                tasks[t] # NoTask /\ MidPoll(tasks[t])} :
          tasks' = AbortHandles(device_tasks[d], running)
    /\ UNCHANGED <<txVars, tbVars, csvVars, iecVars, logVars, storeVars, device_clients, clients_lock>>

StopDevice_Abort(c, d) ==
    /\ calls[c].pc = "idle"
    /\ RemoveAndAbortRunning(c, d)
    /\ SetCall(c, [op |-> "stop_device", pc |-> "stop_client", device_id |-> d])

StartDevice_Abort(c) ==
    /\ calls[c].pc = "stop_tasks"
    /\ RemoveAndAbortRunning(c, calls[c].device_id)
    /\ SetCall(c, [calls[c] EXCEPT !.pc = "stop_client"])

\* A cancelled task reaches an await that has to wait and is dropped there,
\* with the client it holds.
YieldCancelled(t) ==
    /\ tasks[t] # NoTask
    /\ tasks[t].cancelled
    /\ ~MidPoll(tasks[t])
    /\ tasks' = [tasks EXCEPT ![t] = NoTask]
    /\ UNCHANGED <<txVars, tbVars, csvVars, iecVars, logVars, storeVars, device_tasks,
                   device_clients, clients_lock, calls>>

\* The steps of task t: a cancelled task is never resumed from an await.
AbortableStep(t) ==
    \/ TakeClient(t) /\ ~tasks[t].cancelled
    \/ \E reachable \in BOOLEAN : Connect(t, reachable) /\ ~tasks[t].cancelled
    \/ Backoff(t) /\ ~tasks[t].cancelled
    \/ PollTick(t) /\ ~tasks[t].cancelled
    \/ WriteConnected(t)
    \/ WriteError(t)
    \/ PutBack(t)
    \/ WriteReading(t)
    \/ YieldCancelled(t)

InitAbort == InitSupervisor({"modbus_tcp", "iec104"}, {1}, {FALSE})

NextAbort ==
    \/ \E d \in DeviceIds : StartDevice(1, d) \/ StopDevice_Abort(1, d)
    \/ StartDevice_Abort(1)
    \/ StopDevice_Client(1)
    \/ StopDevice_Status(1)
    \/ StartDevice_GetTags(1)
    \/ StartDevice_Spawn(1)
    \/ StartDevice_InsertTasks(1)
    \/ StartDevice_Status(1)
    \/ Return(1)
    \/ \E t \in TaskIds : AbortableStep(t)

\* SpecAbort: one request stream starts and stops a device with one loop on
\* a multi-threaded runtime.
SpecAbort == InitAbort /\ [][NextAbort]_vars

\* stop_device has completed and no start_device was invoked since.
Stopped(c) == calls[c].pc \in {"idle", "returned"} /\ calls[c].op # "start_device"

\* C31: once stop_device(d) has written Stopped and returned, the status row
\* of d stays Stopped until the next start_device(d): no loop that the stop
\* aborted writes Connected, Reading or Error after it.
C31_StoppedStaysStopped ==
    [][\A d \in DeviceIds :
          (/\ device_status[d].status = "Stopped"
           /\ \A c \in CallerIds : Stopped(c)
           /\ \A c \in CallerIds : Stopped(c)') =>
              device_status'[d].status = "Stopped"]_vars

\* ------------------------------------------------ status order of a start
\* C32: within one start_device call the status rows follow Stopped, then
\* Starting, then the rows of the spawned loops: when Starting is written the
\* row is still the Stopped of the implicit stop, no loop spawned by the call
\* having written Connected, Reading or Error before it.
C32_StartingBeforeLoopStatus ==
    [][\A c \in CallerIds :
          (/\ calls[c].op = "start_device"
           /\ calls[c].pc = "status_starting"
           /\ calls'[c].pc = "returned") =>
              device_status[calls[c].device_id].status = "Stopped"]_vars

\* ------------------------------------------------- stop and the held client
\* The client has a connection: connect() returned Ok on it.
ClientConnected(client) ==
    IF client.kind = "Modbus" THEN client.inner.tcp_client # None
    ELSE client.inner.stream # None

\* C33: stop_device disconnects only the client it removes from the cache
\* (for IEC 104 sending STOPDT_ACT), so the connected client that a loop of
\* the device holds when stop_device is called has to be in the cache once
\* the loops are aborted; and no client of the device is in the cache when
\* stop_device returns.
C33_StopDisconnectsHeldClient ==
    [][\A c \in CallerIds :
          /\ (calls[c].pc = "idle" /\ calls'[c].op = "stop_device") =>
                \A t \in LiveTasks(calls'[c].device_id) :
                    (tasks[t].client # <<>> /\ ClientConnected(tasks[t].client[1])) =>
                        /\ device_clients'[calls'[c].device_id] # <<>>
                        /\ device_clients'[calls'[c].device_id][1].id
                              = tasks[t].client[1].id
          /\ (/\ calls[c].op = "stop_device"
              /\ calls[c].pc = "stop_status"
              /\ calls'[c].pc = "returned") =>
                device_clients'[calls[c].device_id] = <<>>]_vars

\* ------------------------------------------------------- store transactions
\* The tables as the shared connection sees them.
Store ==
    [devices |-> devices, device_tags |-> device_tags,
     device_status |-> device_status, device_models |-> device_models]

\* What a crash or a ROLLBACK would leave: the tables as of BEGIN while a
\* transaction is open.
Durable == IF connection.begun = <<>> THEN Store ELSE connection.begun[1]

Connection(foreign_keys, begun) == [foreign_keys |-> foreign_keys, begun |-> begun]

\* conn.execute("BEGIN TRANSACTION"): an error inside an open transaction.
Begin(conn, st) ==
    IF conn.begun = <<>>
    THEN [connection |-> Connection(conn.foreign_keys, <<st>>), ret |-> Ok("begun")]
    ELSE [connection |-> conn,
          ret |-> Err("cannot start a transaction within a transaction")]

\* conn.execute("COMMIT") / conn.execute("ROLLBACK")
Commit(conn) == Connection(conn.foreign_keys, <<>>)

\* A statement inside the transaction returned an error and `?` passes it on
\* without a ROLLBACK: the transaction stays open with what was done so far,
\* unless SQLite rolled it back by itself (as it may on SQLITE_FULL,
\* SQLITE_IOERR or SQLITE_NOMEM; it does not on SQLITE_BUSY or SQLITE_ERROR).
Failed(done, conn, rolled_back) ==
    IF rolled_back
    THEN [store |-> conn.begun[1], connection |-> Commit(conn), ret |-> Err("sqlite")]
    ELSE [store |-> done, connection |-> conn, ret |-> Err("sqlite")]

\* The DELETE statements of delete_device, the first n of them.
DeleteDeviceRows(st, d, n) ==
    [devices |-> IF n >= 3 THEN [st.devices EXCEPT ![d] = <<>>] ELSE st.devices,
     device_tags |-> IF n >= 1 THEN [st.device_tags EXCEPT ![d] = <<>>]
                     ELSE st.device_tags,
     device_status |-> IF n >= 2 THEN [st.device_status EXCEPT ![d] = NoStatus]
                       ELSE st.device_status,
     device_models |-> st.device_models]

\* delete_device: BEGIN, the existence check (ROLLBACK when there is no such
\* device), three DELETEs, COMMIT.  Statement `failing` returns an error (0:
\* none does) and `?` returns it to the caller without a ROLLBACK.
delete_device(st, conn, d, failing, rolled_back) ==
    LET b == Begin(conn, st) IN
    IF ~b.ret.ok THEN [store |-> st, connection |-> conn, ret |-> b.ret]
    ELSE IF failing = 1 THEN Failed(st, b.connection, rolled_back)
    ELSE IF st.devices[d] = <<>>
    THEN [store |-> st, connection |-> Commit(b.connection),
          ret |-> Err("Device not found")]
    ELSE IF failing \in 2..5
    THEN Failed(DeleteDeviceRows(st, d, failing - 2), b.connection, rolled_back)
    ELSE [store |-> DeleteDeviceRows(st, d, 3),
          connection |-> Commit(b.connection), ret |-> Ok("deleted")]

\* DELETE FROM devices WHERE model_id = ?: the rows of device_tags follow by
\* ON DELETE CASCADE where the build enforces foreign keys; device_status has
\* no foreign key.
DeleteDevicesOfModel(st, conn, model_id) ==
    LET gone == {d \in DeviceIds :
                    st.devices[d] # <<>> /\ st.devices[d][1].model_id = model_id}
    IN  [devices |-> [d \in DeviceIds |->
                         IF d \in gone THEN <<>> ELSE st.devices[d]],
         device_tags |-> [d \in DeviceIds |->
                             IF d \in gone /\ conn.foreign_keys THEN <<>>
                             ELSE st.device_tags[d]],
         device_status |-> st.device_status,
         device_models |-> st.device_models]

DeleteModelRows(st, conn, model_id, n) ==
    LET s1 == IF n >= 2 THEN DeleteDevicesOfModel(st, conn, model_id) ELSE st
    IN  IF n >= 3
        THEN [s1 EXCEPT !.device_models = {dm \in @ : dm.id # model_id}]
        ELSE s1

\* delete_device_model: BEGIN, the existence check, DELETE of the model's tag
\* templates (a table the model does not hold), of its devices and of the
\* model, COMMIT.
delete_device_model(st, conn, model_id, failing, rolled_back) ==
    LET b == Begin(conn, st) IN
    IF ~b.ret.ok THEN [store |-> st, connection |-> conn, ret |-> b.ret]
    ELSE IF failing = 1 THEN Failed(st, b.connection, rolled_back)
    ELSE IF \A dm \in st.device_models : dm.id # model_id
    THEN [store |-> st, connection |-> Commit(b.connection),
          ret |-> Err("Device model not found")]
    ELSE IF failing \in 2..5
    THEN Failed(DeleteModelRows(st, conn, model_id, failing - 2), b.connection,
                rolled_back)
    ELSE [store |-> DeleteModelRows(st, conn, model_id, 3),
          connection |-> Commit(b.connection), ret |-> Ok("deleted")]

StoreModelIds == {"model-1"}

StoreTagLists ==
    {<<>>, <<DeviceTag("t1", "uint16", 1, 0, TRUE, None)>>,
     <<DeviceTag("t1", "uint16", 1, 0, TRUE, None),
       DeviceTag("t2", "int16", 2, 1, TRUE, None)>>}

\* The store after Database::new; the build decides whether SQLite enforces
\* foreign keys (no PRAGMA foreign_keys is issued).
InitStore ==
    /\ log_entries = {}
    /\ log_seq = 0
    /\ op = [name |-> "new"]
    /\ modbus = None
    /\ devices = [d \in DeviceIds |-> <<>>]
    /\ device_tags = [d \in DeviceIds |-> <<>>]
    /\ schedule_groups = {}
    /\ device_status = [d \in DeviceIds |-> NoStatus]
    /\ device_tasks = [d \in DeviceIds |-> {}]
    /\ device_clients = [d \in DeviceIds |-> <<>>]
    /\ clients_lock = 0
    /\ tasks = [t \in TaskIds |-> NoTask]
    /\ calls = [c \in CallerIds |-> IdleCall]
    /\ iec104 = None
    /\ wire = None
    /\ modbus_tcp_tag_registers = EmptyBag
    /\ device_models = {DeviceModel(m, m) : m \in StoreModelIds}
    /\ thingsboard = None
    /\ plant_config = None
    /\ tag_templates = EmptyBag
    /\ \E foreign_keys \in BOOLEAN : connection = Connection(foreign_keys, <<>>)

StoreUnchanged ==
    UNCHANGED <<log_entries, log_seq, modbus, schedule_groups, supVars, iecVars,
                csvVars, thingsboard, plant_config, tag_templates>>

SetStore(st) ==
    /\ devices' = st.devices
    /\ device_tags' = st.device_tags
    /\ device_status' = st.device_status
    /\ device_models' = st.device_models

StoreOp(name, ret) == [name |-> name, ret |-> ret, durable |-> Durable]

\* create_device: INSERT INTO devices; the id is the primary key.
CreateDevice ==
    \E d \in DeviceIds, model_id \in {None} \cup {dm.id : dm \in device_models} :
       /\ IF devices[d] = <<>>
          THEN /\ devices' = [devices EXCEPT ![d] =
                                 <<[enabled |-> TRUE, retry_count |-> 1,
                                    protocol |-> "modbus_tcp",
                                    model_id |-> model_id]>>]
               /\ op' = StoreOp("create_device", Ok("created"))
          ELSE /\ op' = StoreOp("create_device", Err("UNIQUE constraint failed"))
               /\ UNCHANGED devices
       /\ UNCHANGED <<device_tags, device_status, device_models, connection>>
       /\ StoreUnchanged

\* create_device_model: INSERT INTO device_models.
CreateDeviceModel ==
    \E m \in StoreModelIds :
       /\ \A dm \in device_models : dm.id # m
       /\ device_models' = device_models \cup {DeviceModel(m, m)}
       /\ op' = StoreOp("create_device_model", Ok("created"))
       /\ UNCHANGED <<devices, device_tags, device_status, connection>>
       /\ StoreUnchanged

\* create_device_tags for a device that exists: the INSERT of tag
\* `inserted + 1` fails when inserted < Len(tags).
CreateDeviceTags ==
    \E d \in DeviceIds, tags \in StoreTagLists, inserted \in 0..MaxTags :
       /\ devices[d] # <<>>
       /\ device_tags[d] = <<>>
       /\ inserted <= Len(tags)
       /\ device_tags' = [device_tags EXCEPT
                             ![d] = create_device_tags(@, tags, inserted)]
       /\ op' = StoreOp("create_device_tags",
                        IF inserted = Len(tags) THEN Ok("created") ELSE Err("sqlite"))
       /\ UNCHANGED <<devices, device_status, device_models, connection>>
       /\ StoreUnchanged

\* delete_device_tags: one DELETE.
DeleteDeviceTags ==
    \E d \in DeviceIds :
       /\ device_tags[d] # <<>>
       /\ device_tags' = [device_tags EXCEPT ![d] = <<>>]
       /\ op' = StoreOp("delete_device_tags", Ok("deleted"))
       /\ UNCHANGED <<devices, device_status, device_models, connection>>
       /\ StoreUnchanged

\* update_device_status for a device that exists: INSERT OR REPLACE.
UpdateDeviceStatus ==
    \E d \in DeviceIds, status \in {"Starting", "Stopped"} :
       /\ devices[d] # <<>>
       /\ device_status' = [device_status EXCEPT ![d] = Status(status, None, 0)]
       /\ op' = StoreOp("update_device_status", Ok("written"))
       /\ UNCHANGED <<devices, device_tags, device_models, connection>>
       /\ StoreUnchanged

DeleteDevice ==
    \E d \in DeviceIds, failing \in 0..5, rolled_back \in BOOLEAN :
       LET r == delete_device(Store, connection, d, failing, rolled_back)
       IN  /\ SetStore(r.store)
           /\ connection' = r.connection
           /\ op' = StoreOp("delete_device", r.ret)
           /\ StoreUnchanged

DeleteDeviceModel ==
    \E m \in StoreModelIds, failing \in 0..5, rolled_back \in BOOLEAN :
       LET r == delete_device_model(Store, connection, m, failing, rolled_back)
       IN  /\ SetStore(r.store)
           /\ connection' = r.connection
           /\ op' = StoreOp("delete_device_model", r.ret)
           /\ StoreUnchanged

NextStore ==
    \/ CreateDevice
    \/ CreateDeviceModel
    \/ CreateDeviceTags
    \/ DeleteDeviceTags
    \/ UpdateDeviceStatus
    \/ DeleteDevice
    \/ DeleteDeviceModel

\* SpecStore: the store's operations in any order, any statement of an
\* operation failing.
SpecStore == InitStore /\ [][NextStore]_vars

\* C34: a delete_device, delete_device_model or create_device_tags that
\* failed part-way has changed nothing that lasts, and has left the shared
\* connection without an open transaction, so that the next BEGIN succeeds.
C34_FailedOperationLeavesNoTrace ==
    (/\ op.name \in {"delete_device", "delete_device_model", "create_device_tags"}
     /\ ~op.ret.ok) =>
        /\ connection.begun = <<>>
        /\ Durable = op.durable
        /\ Begin(connection, Store).ret.ok

\* C35: every device_tags row and every device_status row belongs to a device
\* row that exists, whatever store operations ran.
C35_NoOrphanRows ==
    \A d \in DeviceIds :
        devices[d] = <<>> =>
            /\ device_tags[d] = <<>>
            /\ device_status[d] = NoStatus

\* ---------------------------------------------------------- Database::new
\* Largest number of times the store is opened.
MaxOpens == 3

\* INSERT OR IGNORE into a table whose id is the primary key.
InsertOrIgnoreById(table, row) ==
    IF \E r \in table : r.id = row.id THEN table ELSE table \cup {row}

RECURSIVE InsertAllById(_, _)
InsertAllById(table, rows) ==
    IF rows = <<>> THEN table
    ELSE InsertAllById(InsertOrIgnoreById(table, Head(rows)), Tail(rows))

\* INSERT OR IGNORE INTO tag_templates: the only key of the table is its
\* AUTOINCREMENT id, which the statement does not give, so nothing conflicts.
InsertTemplate(table, row) == table (+) SetToBag({row})

RECURSIVE InsertTemplates(_, _)
InsertTemplates(table, rows) ==
    IF rows = <<>> THEN table
    ELSE InsertTemplates(InsertTemplate(table, Head(rows)), Tail(rows))

DefaultDeviceModels ==
    <<DeviceModel("custom", "Custom Device"),
      DeviceModel("sungrow_1", "Sungrow Inverter"),
      DeviceModel("iec104_rtu", "IEC 104 RTU")>>

TagTemplate(model_id, name) == [model_id |-> model_id, name |-> name]

DefaultTagTemplates ==
    <<TagTemplate("sungrow_1", "system_status"),
      TagTemplate("sungrow_1", "production_count"),
      TagTemplate("sungrow_1", "temperature_1"),
      TagTemplate("sungrow_1", "temperature_2"),
      TagTemplate("sungrow_1", "pressure_1"),
      TagTemplate("sungrow_1", "flow_rate"),
      TagTemplate("sungrow_1", "alarm_status")>>

DefaultScheduleGroups ==
    <<ScheduleGroupRow("high_freq", TRUE), ScheduleGroupRow("medium_freq", TRUE),
      ScheduleGroupRow("low_freq", TRUE), ScheduleGroupRow("energy_monitor", TRUE)>>

Catalogs ==
    [schedule_groups |-> schedule_groups, device_models |-> device_models,
     tag_templates |-> tag_templates]

\* A database file that does not exist yet.
InitNew ==
    /\ log_entries = {}
    /\ log_seq = 0
    /\ op = [name |-> "none", opens |-> 0]
    /\ modbus = None
    /\ NoSupervisor

OpenUnchanged ==
    UNCHANGED <<log_entries, log_seq, modbus, devices, device_tags, device_status,
                supVars, iecVars, csvVars, thingsboard, plant_config, connection>>

\* Database::new: the CREATE ... IF NOT EXISTS statements and the ignored
\* ALTERs change no row; then the default models, templates and groups.
DatabaseNew ==
    /\ op.opens < MaxOpens
    /\ device_models' = InsertAllById(device_models, DefaultDeviceModels)
    /\ tag_templates' = InsertTemplates(tag_templates, DefaultTagTemplates)
    /\ schedule_groups' = InsertAllById(schedule_groups, DefaultScheduleGroups)
    /\ op' = [name |-> "new", opens |-> op.opens + 1, before |-> Catalogs]
    /\ OpenUnchanged

\* update_schedule_group on an open store: the group is enabled or disabled.
SetScheduleGroupEnabled ==
    \E sg \in schedule_groups :
       /\ schedule_groups' = (schedule_groups \ {sg})
                                \cup {ScheduleGroupRow(sg.id, ~sg.enabled)}
       /\ op' = [name |-> "update_schedule_group", opens |-> op.opens]
       /\ UNCHANGED <<device_models, tag_templates>>
       /\ OpenUnchanged

\* delete_schedule_group on an open store.
DeleteScheduleGroup ==
    \E sg \in schedule_groups :
       /\ schedule_groups' = schedule_groups \ {sg}
       /\ op' = [name |-> "delete_schedule_group", opens |-> op.opens]
       /\ UNCHANGED <<device_models, tag_templates>>
       /\ OpenUnchanged

NextNew == DatabaseNew \/ SetScheduleGroupEnabled \/ DeleteScheduleGroup

\* SpecNew: the process is started again and again on the same database
\* file; between the starts schedule groups are switched on and off.
SpecNew == InitNew /\ [][NextNew]_vars

\* C36: Database::new on an initialised database leaves the rows of
\* schedule_groups, device_models and tag_templates as they were: the four
\* built-in groups exist once each and every (model, name) tag template once.
C36_OpenIsIdempotent ==
    (op.name = "new" /\ op.opens > 1) =>
        /\ Catalogs = op.before
        /\ Cardinality({sg.id : sg \in schedule_groups}) = Cardinality(schedule_groups)
        /\ \A row \in BagToSet(tag_templates) : CopiesIn(row, tag_templates) = 1

\* ------------------------------------------------- float32 byte orders
Hi(reg) == reg \div 256
Lo(reg) == reg % 256

\* C37: for registers reg0 = (A,B) and reg1 = (C,D) the four candidates of a
\* float32 read are the decodings of the byte sequences A,B,C,D; C,D,A,B;
\* B,A,D,C and D,C,B,A.
C37_FourByteOrders ==
    (op.name = "read_float" /\ op.ret.ok) =>
        LET A == Hi(op.regs[1])
            B == Lo(op.regs[1])
            C == Hi(op.regs[2])
            D == Lo(op.regs[2])
        IN  Float32Candidates(op.regs[1], op.regs[2]) =
                <<f32_from_be_bytes(<<A, B, C, D>>),
                  f32_from_be_bytes(<<C, D, A, B>>),
                  f32_from_be_bytes(<<B, A, D, C>>),
                  f32_from_be_bytes(<<D, C, B, A>>)>>

\* ------------------------------------------------ frames per interrogation
\* Most frames a peer puts on the stream after one interrogation.
MaxFlood == 12

\* What the peer sends after an interrogation: single-point I-frames or
\* S-frames, at most one chunk of them with a wrong start byte; after the
\* last chunk the peer is silent.
FloodInbounds ==
    {[i \in 1..n |-> IF i = bad THEN "garbage" ELSE kind] :
        n \in 0..MaxFlood, bad \in 0..MaxFlood, kind \in {"sp1", "s"}}

\* The state after a read_tags call that returned r.
FloodStep(kinds, r) ==
    /\ iec104' = [client |-> r.client, pc |-> "poll"]
    /\ wire' = IF r.sent = <<>> THEN wire
               ELSE [wire EXCEPT
                       !.tx = r.sent, !.tx_i = r.sent,
                       !.delivered = @ + DeliveredIFrames(kinds, 1)]
    /\ log_entries' = r.table
    /\ log_seq' = r.seq
    /\ op' = [name |-> "read_tags", kinds |-> kinds,
              sent |-> r.sent, ret |-> r.ret]

\* One polling tick against a peer that may send more than ten frames.
IecReadFlood ==
    /\ iec104.pc = "poll"
    /\ iec104.client.send_sequence < MaxInterrogations
    /\ \E write_ok \in BOOLEAN :
       \E kinds \in IF write_ok THEN FloodInbounds ELSE {<<>>} :
       \E db_ok \in IF kinds = <<>> THEN {TRUE} ELSE BOOLEAN :
        /\ log_seq + Len(kinds) <= MaxFlood
        /\ FloodStep(kinds,
                     Iec104_read_tags(iec104.client, log_entries, log_seq,
                                      write_ok,
                                      PeerChunks(kinds, wire.delivered, 1),
                                      db_ok, Now))
    /\ UNCHANGED <<txVars, tbVars, csvVars, modbus, storeVars, supVars>>

NextIecFlood == IecConnect \/ IecReadFlood \/ IecStop

\* SpecIecFlood: interrogations of a peer that answers with any number of
\* frames up to MaxFlood.
SpecIecFlood == InitIec /\ [][NextIecFlood]_vars

\* The chunks before the first one that receive_frame rejects.
RECURSIVE FramesBeforeError(_, _)
FramesBeforeError(kinds, i) ==
    IF i > Len(kinds) \/ kinds[i] = "garbage" THEN 0
    ELSE 1 + FramesBeforeError(kinds, i + 1)

\* The single-point frames among the first n chunks.
DataFramesAmong(kinds, n) == Cardinality({i \in 1..n : kinds[i] = "sp1"})

\* C38: a read_tags call writes one general-interrogation I-frame (type 100,
\* sixteen bytes) and then takes frames until the first receive error, the
\* first timeout or the tenth frame, whichever comes first; what it returns
\* comes from those frames only.
C38_OneInterrogationTenFrames ==
    op.name = "read_tags" =>
        IF op.ret.ok
        THEN /\ Len(op.sent) = 16
             /\ op.sent[1] = START_BYTE
             /\ op.sent[7] = 100
             /\ Len(op.ret.value) =
                   DataFramesAmong(op.kinds, Min(10, FramesBeforeError(op.kinds, 1)))
        ELSE op.sent = <<>>

\* The peer sent twelve data frames and the call returned the entries of ten.
C38_Witness ==
    /\ op.name = "read_tags"
    /\ op.ret.ok
    /\ Len(op.kinds) = 12
    /\ \A i \in 1..12 : op.kinds[i] = "sp1"
    /\ Len(op.ret.value) = 10

\* ------------------------------------------------ sequence numbers on connect
\* C39: when connect has returned Ok (TCP stream open, STARTDT confirmed),
\* the client's send and receive sequence numbers are 0, so that the first
\* I-frame on the new stream carries N(S) = 0.
C39_ConnectStartsSequencesAtZero ==
    (op.name = "connect" /\ op.ret.ok) =>
        /\ iec104.client.send_sequence = 0
        /\ iec104.client.receive_sequence = 0

\* ------------------------------------------------ the Reading status
\* C40: a loop that has reset retry_count and is about to write the Reading
\* status comes from a tick whose read returned at least one entry of Good
\* quality.
C40_ReadingOnlyAfterGoodRead ==
    \A t \in TaskIds :
        (tasks[t] # NoTask /\ tasks[t].pc = "status_reading") =>
            \E i \in 1..Len(tasks[t].result[1]) : tasks[t].result[1][i] = "Good"

====
